---- MODULE Spec2Model ----
(***************************************************************************)
(* A model of honnef.co/go/js/dom: the facade factories that turn a host   *)
(* (JavaScript) object handle into a typed Go wrapper, the snapshot        *)
(* conversion of host collections, the event listener and timer adapters,  *)
(* the token lists, the cross-reference resolvers, the methods that hand a *)
(* facade to the host and the host calls whose failure is recovered.       *)
(*                                                                         *)
(* Host values are js.Value handles.  Every handle is a record; the host   *)
(* properties the package reads for dispatch ("constructor", "node") are   *)
(* fields of the handle, so a handle's dynamic type is fixed for its       *)
(* lifetime.                                                               *)
(***************************************************************************)
EXTENDS Integers, Sequences, FiniteSets, TLC

VARIABLES
  call,       \* the call under study: [fn, arg], fn "none" before the call
  ret,        \* its outcome: a facade, nil, a host call, an error value or a panic
  coll,       \* the host collection, live on the host side
  snap,       \* the last snapshot conversion: [fn, src, out]
  listeners,  \* the host's listener list of the event target
  funcs,      \* the js.Func adapters created so far, by id
  delivered,  \* the last event the host dispatched and what each callback did
  justAdded,  \* the adapter the directly preceding AddEventListener returned, else 0
  timers,     \* the host's timer and animation-frame table, by request id
  heap,       \* the facades allocated so far, by address
  host,       \* the host objects' attributes, by object id
  op          \* the last TokenList operation: what it touched and returned

vars == <<call, ret, coll, snap, listeners, funcs, delivered, justAdded, timers, heap, host, op>>

dispatchVars == <<call, ret>>
snapshotVars == <<coll, snap>>
listenerVars == <<listeners, funcs, delivered, justAdded>>
timerVars == <<timers>>
elementVars == <<heap, host, op>>

\* No timer was requested, no facade allocated, no token list touched.
RestIdle ==
  /\ timers = <<>>
  /\ heap = <<>>
  /\ host = <<>>
  /\ op = <<>>

(***************************************************************************)
(* Bounds of the model.                                                    *)
(***************************************************************************)
MaxObj == 2      \* host objects per constructor
MaxLen == 2      \* members of a host collection, tokens of a slice
MaxFuncs == 2    \* js.Func adapters created
MaxStr == 2      \* characters of a string written to a token list

(***************************************************************************)
(* js.Value                                                                *)
(***************************************************************************)
Null == [kind |-> "null", node |-> "undefined", id |-> 0, ctor |-> "", nodeCtor |-> ""]

Undefined == [kind |-> "undefined", node |-> "undefined", id |-> 0, ctor |-> "", nodeCtor |-> ""]

Object(id, ctor, node, nodeCtor) ==
  [kind |-> "object", node |-> node, id |-> id, ctor |-> ctor, nodeCtor |-> nodeCtor]

IsNullish(o) == o = Null \/ o = Undefined

\* o.Get("node") for an object o: undefined on a plain DOM object, the inner
\* node on a Polymer wrapper, null when the property holds null.
GetNode(o) ==
  CASE o.node = "undefined" -> Undefined
    [] o.node = "null" -> Null
    [] OTHER -> Object(0 - o.id, o.nodeCtor, "undefined", "")

\* Value.Get on null or undefined does not return: the host raises a TypeError.
GetOfNothing == {"Get(node) of null", "Get(node) of undefined", "Get(constructor) of null",
                 "Get(constructor) of undefined"}

GetFault(prop, o) == "Get(" \o prop \o ") of " \o o.kind

(***************************************************************************)
(* Facades: the composed Go value, outermost layer first.                  *)
(***************************************************************************)
Nil == [kind |-> "nil"]

Panic(why) == [kind |-> "panic", why |-> why]

\* Value is the handle the base layer embeds; URLUtils is the handle of the
\* URLUtils layer, null when the concrete type has none or leaves it unset.
\* pointer tells the dynamic type *T, built by &T{...}, from the dynamic type
\* T, built by T{...}.
Facade(layers, o, urlUtils) ==
  [kind |-> "facade", layers |-> layers, Value |-> o, URLUtils |-> urlUtils, pointer |-> TRUE]

\* The composite literal T{...} without &: a value of type T.
ByValue(f) == [f EXCEPT !.pointer = FALSE]

BasicNode == <<"BasicNode">>

BasicHTMLElement == <<"BasicHTMLElement", "BasicElement", "BasicNode">>

BasicEvent == <<"BasicEvent">>

ConcreteType(f) == f.layers[1]

HasLayer(f, layer) == \E i \in 1..Len(f.layers) : f.layers[i] = layer

\* The interface a layer's method set implements.
Implements(f, iface) ==
  /\ f.kind = "facade"
  /\ CASE iface = "Node" -> HasLayer(f, "BasicNode")
       [] iface = "Element" -> HasLayer(f, "BasicElement")
       [] iface = "HTMLElement" -> HasLayer(f, "BasicHTMLElement")
       [] iface = "Event" -> HasLayer(f, "BasicEvent")
       [] OTHER -> FALSE

TypeAssert_coercing(x, T) ==
  IF x.kind = "facade" THEN Facade(<<T>> \o BasicHTMLElement, x.Value, Null) ELSE x

\* x.(*T): panics for a nil interface and for any other dynamic type.
TypeAssert(x, T) ==
  IF x.kind = "panic" THEN x
  ELSE IF x.kind = "nil" THEN Panic("interface conversion: interface is nil, not *" \o T)
  ELSE IF ConcreteType(x) = T /\ x.pointer THEN x
  ELSE Panic("interface conversion: not *" \o T)

(***************************************************************************)
(* The dispatch tables: switch arm -> the layers the arm puts on top of    *)
(* the base layer (el, ev), and whether it adds a URLUtils layer.          *)
(***************************************************************************)
htmlElementArms ==
     "HTMLAnchorElement" :> [outer |-> <<"HTMLAnchorElement">>, url |-> TRUE]
  @@ "HTMLAppletElement" :> [outer |-> <<"HTMLAppletElement">>, url |-> FALSE]
  @@ "HTMLAreaElement" :> [outer |-> <<"HTMLAreaElement">>, url |-> TRUE]
  @@ "HTMLAudioElement" :> [outer |-> <<"HTMLAudioElement", "HTMLMediaElement">>, url |-> FALSE]
  @@ "HTMLBaseElement" :> [outer |-> <<"HTMLBaseElement">>, url |-> FALSE]
  @@ "HTMLBodyElement" :> [outer |-> <<"HTMLBodyElement">>, url |-> FALSE]
  @@ "HTMLBRElement" :> [outer |-> <<"HTMLBRElement">>, url |-> FALSE]
  @@ "HTMLButtonElement" :> [outer |-> <<"HTMLButtonElement">>, url |-> FALSE]
  @@ "HTMLCanvasElement" :> [outer |-> <<"HTMLCanvasElement">>, url |-> FALSE]
  @@ "HTMLDataElement" :> [outer |-> <<"HTMLDataElement">>, url |-> FALSE]
  @@ "HTMLDataListElement" :> [outer |-> <<"HTMLDataListElement">>, url |-> FALSE]
  @@ "HTMLDirectoryElement" :> [outer |-> <<"HTMLDirectoryElement">>, url |-> FALSE]
  @@ "HTMLDivElement" :> [outer |-> <<"HTMLDivElement">>, url |-> FALSE]
  @@ "HTMLDListElement" :> [outer |-> <<"HTMLDListElement">>, url |-> FALSE]
  @@ "HTMLEmbedElement" :> [outer |-> <<"HTMLEmbedElement">>, url |-> FALSE]
  @@ "HTMLFieldSetElement" :> [outer |-> <<"HTMLFieldSetElement">>, url |-> FALSE]
  @@ "HTMLFontElement" :> [outer |-> <<"HTMLFontElement">>, url |-> FALSE]
  @@ "HTMLFormElement" :> [outer |-> <<"HTMLFormElement">>, url |-> FALSE]
  @@ "HTMLFrameElement" :> [outer |-> <<"HTMLFrameElement">>, url |-> FALSE]
  @@ "HTMLFrameSetElement" :> [outer |-> <<"HTMLFrameSetElement">>, url |-> FALSE]
  @@ "HTMLHeadElement" :> [outer |-> <<"HTMLHeadElement">>, url |-> FALSE]
  @@ "HTMLHeadingElement" :> [outer |-> <<"HTMLHeadingElement">>, url |-> FALSE]
  @@ "HTMLHtmlElement" :> [outer |-> <<"HTMLHtmlElement">>, url |-> FALSE]
  @@ "HTMLHRElement" :> [outer |-> <<"HTMLHRElement">>, url |-> FALSE]
  @@ "HTMLIFrameElement" :> [outer |-> <<"HTMLIFrameElement">>, url |-> FALSE]
  @@ "HTMLImageElement" :> [outer |-> <<"HTMLImageElement">>, url |-> FALSE]
  @@ "HTMLInputElement" :> [outer |-> <<"HTMLInputElement">>, url |-> FALSE]
  @@ "HTMLKeygenElement" :> [outer |-> <<"HTMLKeygenElement">>, url |-> FALSE]
  @@ "HTMLLabelElement" :> [outer |-> <<"HTMLLabelElement">>, url |-> FALSE]
  @@ "HTMLLegendElement" :> [outer |-> <<"HTMLLegendElement">>, url |-> FALSE]
  @@ "HTMLLIElement" :> [outer |-> <<"HTMLLIElement">>, url |-> FALSE]
  @@ "HTMLLinkElement" :> [outer |-> <<"HTMLLinkElement">>, url |-> FALSE]
  @@ "HTMLMapElement" :> [outer |-> <<"HTMLMapElement">>, url |-> FALSE]
  @@ "HTMLMediaElement" :> [outer |-> <<"HTMLMediaElement">>, url |-> FALSE]
  @@ "HTMLMenuElement" :> [outer |-> <<"HTMLMenuElement">>, url |-> FALSE]
  @@ "HTMLMetaElement" :> [outer |-> <<"HTMLMetaElement">>, url |-> FALSE]
  @@ "HTMLMeterElement" :> [outer |-> <<"HTMLMeterElement">>, url |-> FALSE]
  @@ "HTMLModElement" :> [outer |-> <<"HTMLModElement">>, url |-> FALSE]
  @@ "HTMLObjectElement" :> [outer |-> <<"HTMLObjectElement">>, url |-> FALSE]
  @@ "HTMLOListElement" :> [outer |-> <<"HTMLOListElement">>, url |-> FALSE]
  @@ "HTMLOptGroupElement" :> [outer |-> <<"HTMLOptGroupElement">>, url |-> FALSE]
  @@ "HTMLOptionElement" :> [outer |-> <<"HTMLOptionElement">>, url |-> FALSE]
  @@ "HTMLOutputElement" :> [outer |-> <<"HTMLOutputElement">>, url |-> FALSE]
  @@ "HTMLParagraphElement" :> [outer |-> <<"HTMLParagraphElement">>, url |-> FALSE]
  @@ "HTMLParamElement" :> [outer |-> <<"HTMLParamElement">>, url |-> FALSE]
  @@ "HTMLPreElement" :> [outer |-> <<"HTMLPreElement">>, url |-> FALSE]
  @@ "HTMLProgressElement" :> [outer |-> <<"HTMLProgressElement">>, url |-> FALSE]
  @@ "HTMLQuoteElement" :> [outer |-> <<"HTMLQuoteElement">>, url |-> FALSE]
  @@ "HTMLScriptElement" :> [outer |-> <<"HTMLScriptElement">>, url |-> FALSE]
  @@ "HTMLSelectElement" :> [outer |-> <<"HTMLSelectElement">>, url |-> FALSE]
  @@ "HTMLSourceElement" :> [outer |-> <<"HTMLSourceElement">>, url |-> FALSE]
  @@ "HTMLSpanElement" :> [outer |-> <<"HTMLSpanElement">>, url |-> FALSE]
  @@ "HTMLStyleElement" :> [outer |-> <<"HTMLStyleElement">>, url |-> FALSE]
  @@ "HTMLTableElement" :> [outer |-> <<"HTMLTableElement">>, url |-> FALSE]
  @@ "HTMLTableCaptionElement" :> [outer |-> <<"HTMLTableCaptionElement">>, url |-> FALSE]
  @@ "HTMLTableCellElement" :> [outer |-> <<"HTMLTableCellElement">>, url |-> FALSE]
  @@ "HTMLTableDataCellElement" :> [outer |-> <<"HTMLTableDataCellElement">>, url |-> FALSE]
  @@ "HTMLTableHeaderCellElement" :> [outer |-> <<"HTMLTableHeaderCellElement">>, url |-> FALSE]
  @@ "HTMLTableColElement" :> [outer |-> <<"HTMLTableColElement">>, url |-> FALSE]
  @@ "HTMLTableRowElement" :> [outer |-> <<"HTMLTableRowElement">>, url |-> FALSE]
  @@ "HTMLTableSectionElement" :> [outer |-> <<"HTMLTableSectionElement">>, url |-> FALSE]
  @@ "HTMLTemplateElement" :> [outer |-> <<"HTMLTemplateElement">>, url |-> FALSE]
  @@ "HTMLTextAreaElement" :> [outer |-> <<"HTMLTextAreaElement">>, url |-> FALSE]
  @@ "HTMLTimeElement" :> [outer |-> <<"HTMLTimeElement">>, url |-> FALSE]
  @@ "HTMLTitleElement" :> [outer |-> <<"HTMLTitleElement">>, url |-> FALSE]
  @@ "HTMLTrackElement" :> [outer |-> <<"HTMLTrackElement">>, url |-> FALSE]
  @@ "HTMLUListElement" :> [outer |-> <<"HTMLUListElement">>, url |-> FALSE]
  @@ "HTMLUnknownElement" :> [outer |-> <<"HTMLUnknownElement">>, url |-> FALSE]
  @@ "HTMLVideoElement" :> [outer |-> <<"HTMLVideoElement", "HTMLMediaElement">>, url |-> FALSE]
  @@ "HTMLElement" :> [outer |-> <<>>, url |-> FALSE]

eventArms ==
     "AnimationEvent" :> [outer |-> <<"AnimationEvent">>]
  @@ "AudioProcessingEvent" :> [outer |-> <<"AudioProcessingEvent">>]
  @@ "BeforeInputEvent" :> [outer |-> <<"BeforeInputEvent">>]
  @@ "BeforeUnloadEvent" :> [outer |-> <<"BeforeUnloadEvent">>]
  @@ "BlobEvent" :> [outer |-> <<"BlobEvent">>]
  @@ "ClipboardEvent" :> [outer |-> <<"ClipboardEvent">>]
  @@ "CloseEvent" :> [outer |-> <<"CloseEvent">>]
  @@ "CompositionEvent" :> [outer |-> <<"CompositionEvent">>]
  @@ "CSSFontFaceLoadEvent" :> [outer |-> <<"CSSFontFaceLoadEvent">>]
  @@ "CustomEvent" :> [outer |-> <<"CustomEvent">>]
  @@ "DeviceLightEvent" :> [outer |-> <<"DeviceLightEvent">>]
  @@ "DeviceMotionEvent" :> [outer |-> <<"DeviceMotionEvent">>]
  @@ "DeviceOrientationEvent" :> [outer |-> <<"DeviceOrientationEvent">>]
  @@ "DeviceProximityEvent" :> [outer |-> <<"DeviceProximityEvent">>]
  @@ "DOMTransactionEvent" :> [outer |-> <<"DOMTransactionEvent">>]
  @@ "DragEvent" :> [outer |-> <<"DragEvent">>]
  @@ "EditingBeforeInputEvent" :> [outer |-> <<"EditingBeforeInputEvent">>]
  @@ "ErrorEvent" :> [outer |-> <<"ErrorEvent">>]
  @@ "FocusEvent" :> [outer |-> <<"FocusEvent">>]
  @@ "GamepadEvent" :> [outer |-> <<"GamepadEvent">>]
  @@ "HashChangeEvent" :> [outer |-> <<"HashChangeEvent">>]
  @@ "IDBVersionChangeEvent" :> [outer |-> <<"IDBVersionChangeEvent">>]
  @@ "KeyboardEvent" :> [outer |-> <<"KeyboardEvent">>]
  @@ "MediaStreamEvent" :> [outer |-> <<"MediaStreamEvent">>]
  @@ "MessageEvent" :> [outer |-> <<"MessageEvent">>]
  @@ "MouseEvent" :> [outer |-> <<"MouseEvent", "UIEvent">>]
  @@ "MutationEvent" :> [outer |-> <<"MutationEvent">>]
  @@ "OfflineAudioCompletionEvent" :> [outer |-> <<"OfflineAudioCompletionEvent">>]
  @@ "PageTransitionEvent" :> [outer |-> <<"PageTransitionEvent">>]
  @@ "PointerEvent" :> [outer |-> <<"PointerEvent">>]
  @@ "PopStateEvent" :> [outer |-> <<"PopStateEvent">>]
  @@ "ProgressEvent" :> [outer |-> <<"ProgressEvent">>]
  @@ "RelatedEvent" :> [outer |-> <<"RelatedEvent">>]
  @@ "RTCPeerConnectionIceEvent" :> [outer |-> <<"RTCPeerConnectionIceEvent">>]
  @@ "SensorEvent" :> [outer |-> <<"SensorEvent">>]
  @@ "StorageEvent" :> [outer |-> <<"StorageEvent">>]
  @@ "SVGEvent" :> [outer |-> <<"SVGEvent">>]
  @@ "SVGZoomEvent" :> [outer |-> <<"SVGZoomEvent">>]
  @@ "TimeEvent" :> [outer |-> <<"TimeEvent">>]
  @@ "TouchEvent" :> [outer |-> <<"TouchEvent">>]
  @@ "TrackEvent" :> [outer |-> <<"TrackEvent">>]
  @@ "TransitionEvent" :> [outer |-> <<"TransitionEvent">>]
  @@ "UIEvent" :> [outer |-> <<"UIEvent">>]
  @@ "UserProximityEvent" :> [outer |-> <<"UserProximityEvent">>]
  @@ "WheelEvent" :> [outer |-> <<"WheelEvent">>]

htmlElementArms_gopherjs ==
     "HTMLAnchorElement" :> [outer |-> <<"HTMLAnchorElement">>, url |-> FALSE]
  @@ "HTMLAppletElement" :> [outer |-> <<"HTMLAppletElement">>, url |-> FALSE]
  @@ "HTMLAreaElement" :> [outer |-> <<"HTMLAreaElement">>, url |-> FALSE]
  @@ "HTMLAudioElement" :> [outer |-> <<"HTMLAudioElement", "HTMLMediaElement">>, url |-> FALSE]
  @@ "HTMLBaseElement" :> [outer |-> <<"HTMLBaseElement">>, url |-> FALSE]
  @@ "HTMLBodyElement" :> [outer |-> <<"HTMLBodyElement">>, url |-> FALSE]
  @@ "HTMLBRElement" :> [outer |-> <<"HTMLBRElement">>, url |-> FALSE]
  @@ "HTMLButtonElement" :> [outer |-> <<"HTMLButtonElement">>, url |-> FALSE]
  @@ "HTMLCanvasElement" :> [outer |-> <<"HTMLCanvasElement">>, url |-> FALSE]
  @@ "HTMLDataElement" :> [outer |-> <<"HTMLDataElement">>, url |-> FALSE]
  @@ "HTMLDataListElement" :> [outer |-> <<"HTMLDataListElement">>, url |-> FALSE]
  @@ "HTMLDirectoryElement" :> [outer |-> <<"HTMLDirectoryElement">>, url |-> FALSE]
  @@ "HTMLDivElement" :> [outer |-> <<"HTMLDivElement">>, url |-> FALSE]
  @@ "HTMLDListElement" :> [outer |-> <<"HTMLDListElement">>, url |-> FALSE]
  @@ "HTMLEmbedElement" :> [outer |-> <<"HTMLEmbedElement">>, url |-> FALSE]
  @@ "HTMLFieldSetElement" :> [outer |-> <<"HTMLFieldSetElement">>, url |-> FALSE]
  @@ "HTMLFontElement" :> [outer |-> <<"HTMLFontElement">>, url |-> FALSE]
  @@ "HTMLFormElement" :> [outer |-> <<"HTMLFormElement">>, url |-> FALSE]
  @@ "HTMLFrameElement" :> [outer |-> <<"HTMLFrameElement">>, url |-> FALSE]
  @@ "HTMLFrameSetElement" :> [outer |-> <<"HTMLFrameSetElement">>, url |-> FALSE]
  @@ "HTMLHeadElement" :> [outer |-> <<"HTMLHeadElement">>, url |-> FALSE]
  @@ "HTMLHeadingElement" :> [outer |-> <<"HTMLHeadingElement">>, url |-> FALSE]
  @@ "HTMLHtmlElement" :> [outer |-> <<"HTMLHtmlElement">>, url |-> FALSE]
  @@ "HTMLHRElement" :> [outer |-> <<"HTMLHRElement">>, url |-> FALSE]
  @@ "HTMLIFrameElement" :> [outer |-> <<"HTMLIFrameElement">>, url |-> FALSE]
  @@ "HTMLImageElement" :> [outer |-> <<"HTMLImageElement">>, url |-> FALSE]
  @@ "HTMLInputElement" :> [outer |-> <<"HTMLInputElement">>, url |-> FALSE]
  @@ "HTMLKeygenElement" :> [outer |-> <<"HTMLKeygenElement">>, url |-> FALSE]
  @@ "HTMLLabelElement" :> [outer |-> <<"HTMLLabelElement">>, url |-> FALSE]
  @@ "HTMLLegendElement" :> [outer |-> <<"HTMLLegendElement">>, url |-> FALSE]
  @@ "HTMLLIElement" :> [outer |-> <<"HTMLLIElement">>, url |-> FALSE]
  @@ "HTMLLinkElement" :> [outer |-> <<"HTMLLinkElement">>, url |-> FALSE]
  @@ "HTMLMapElement" :> [outer |-> <<"HTMLMapElement">>, url |-> FALSE]
  @@ "HTMLMediaElement" :> [outer |-> <<"HTMLMediaElement">>, url |-> FALSE]
  @@ "HTMLMenuElement" :> [outer |-> <<"HTMLMenuElement">>, url |-> FALSE]
  @@ "HTMLMetaElement" :> [outer |-> <<"HTMLMetaElement">>, url |-> FALSE]
  @@ "HTMLMeterElement" :> [outer |-> <<"HTMLMeterElement">>, url |-> FALSE]
  @@ "HTMLModElement" :> [outer |-> <<"HTMLModElement">>, url |-> FALSE]
  @@ "HTMLObjectElement" :> [outer |-> <<"HTMLObjectElement">>, url |-> FALSE]
  @@ "HTMLOListElement" :> [outer |-> <<"HTMLOListElement">>, url |-> FALSE]
  @@ "HTMLOptGroupElement" :> [outer |-> <<"HTMLOptGroupElement">>, url |-> FALSE]
  @@ "HTMLOptionElement" :> [outer |-> <<"HTMLOptionElement">>, url |-> FALSE]
  @@ "HTMLOutputElement" :> [outer |-> <<"HTMLOutputElement">>, url |-> FALSE]
  @@ "HTMLParagraphElement" :> [outer |-> <<"HTMLParagraphElement">>, url |-> FALSE]
  @@ "HTMLParamElement" :> [outer |-> <<"HTMLParamElement">>, url |-> FALSE]
  @@ "HTMLPreElement" :> [outer |-> <<"HTMLPreElement">>, url |-> FALSE]
  @@ "HTMLProgressElement" :> [outer |-> <<"HTMLProgressElement">>, url |-> FALSE]
  @@ "HTMLQuoteElement" :> [outer |-> <<"HTMLQuoteElement">>, url |-> FALSE]
  @@ "HTMLScriptElement" :> [outer |-> <<"HTMLScriptElement">>, url |-> FALSE]
  @@ "HTMLSelectElement" :> [outer |-> <<"HTMLSelectElement">>, url |-> FALSE]
  @@ "HTMLSourceElement" :> [outer |-> <<"HTMLSourceElement">>, url |-> FALSE]
  @@ "HTMLSpanElement" :> [outer |-> <<"HTMLSpanElement">>, url |-> FALSE]
  @@ "HTMLStyleElement" :> [outer |-> <<"HTMLStyleElement">>, url |-> FALSE]
  @@ "HTMLTableElement" :> [outer |-> <<"HTMLTableElement">>, url |-> FALSE]
  @@ "HTMLTableCaptionElement" :> [outer |-> <<"HTMLTableCaptionElement">>, url |-> FALSE]
  @@ "HTMLTableCellElement" :> [outer |-> <<"HTMLTableCellElement">>, url |-> FALSE]
  @@ "HTMLTableDataCellElement" :> [outer |-> <<"HTMLTableDataCellElement">>, url |-> FALSE]
  @@ "HTMLTableHeaderCellElement" :> [outer |-> <<"HTMLTableHeaderCellElement">>, url |-> FALSE]
  @@ "HTMLTableColElement" :> [outer |-> <<"HTMLTableColElement">>, url |-> FALSE]
  @@ "HTMLTableRowElement" :> [outer |-> <<"HTMLTableRowElement">>, url |-> FALSE]
  @@ "HTMLTableSectionElement" :> [outer |-> <<"HTMLTableSectionElement">>, url |-> FALSE]
  @@ "HTMLTextAreaElement" :> [outer |-> <<"HTMLTextAreaElement">>, url |-> FALSE]
  @@ "HTMLTimeElement" :> [outer |-> <<"HTMLTimeElement">>, url |-> FALSE]
  @@ "HTMLTitleElement" :> [outer |-> <<"HTMLTitleElement">>, url |-> FALSE]
  @@ "HTMLTrackElement" :> [outer |-> <<"HTMLTrackElement">>, url |-> FALSE]
  @@ "HTMLUListElement" :> [outer |-> <<"HTMLUListElement">>, url |-> FALSE]
  @@ "HTMLUnknownElement" :> [outer |-> <<"HTMLUnknownElement">>, url |-> FALSE]
  @@ "HTMLVideoElement" :> [outer |-> <<"HTMLVideoElement", "HTMLMediaElement">>, url |-> FALSE]

(***************************************************************************)
(* Type tag resolution and the facade factories (v2, syscall/js).          *)
(***************************************************************************)
elementConstructor_ignoringNode(o) == IF IsNullish(o) THEN GetFault("node", o) ELSE o.ctor

\* elementConstructor: the constructor name, or the fault of a Get on nothing.
elementConstructor(o) ==
  IF IsNullish(o) THEN GetFault("node", o)
  ELSE LET n == GetNode(o) IN
    IF n # Undefined
      THEN (IF n = Null THEN GetFault("constructor", n) ELSE n.ctor)
      ELSE o.ctor

wrapDocument(o) ==
  LET c == elementConstructor(o) IN
  IF c \in GetOfNothing THEN Panic(c)
  ELSE IF c = "HTMLDocument"
    THEN Facade(<<"htmlDocument", "document">> \o BasicNode, o, Null)
    ELSE Facade(<<"document">> \o BasicNode, o, Null)

wrapDocumentFragment(o) ==
  LET c == elementConstructor(o) IN
  IF c \in GetOfNothing THEN Panic(c)
  ELSE Facade(<<"documentFragment">> \o BasicNode, o, Null)

wrapHTMLElement_videoWithoutMedia(o) ==
  IF IsNullish(o) THEN Nil
  ELSE LET c == elementConstructor(o)
           el == Facade(BasicHTMLElement, o, Null)
           arms == ("HTMLVideoElement" :> [outer |-> <<"HTMLVideoElement">>, url |-> FALSE])
                   @@ htmlElementArms
       IN IF c \in GetOfNothing THEN Panic(c)
          ELSE IF c \in DOMAIN arms
            THEN Facade(arms[c].outer \o BasicHTMLElement, o,
                        IF arms[c].url THEN o ELSE Null)
            ELSE el

wrapHTMLElement_urlUtilsUnset(o) ==
  IF IsNullish(o) THEN Nil
  ELSE LET c == elementConstructor(o)
           el == Facade(BasicHTMLElement, o, Null)
       IN IF c \in GetOfNothing THEN Panic(c)
          ELSE IF c \in DOMAIN htmlElementArms
            THEN Facade(htmlElementArms[c].outer \o BasicHTMLElement, o, Null)
            ELSE el

wrapHTMLElement(o) ==
  IF IsNullish(o) THEN Nil
  ELSE LET c == elementConstructor(o)
           el == Facade(BasicHTMLElement, o, Null)
       IN IF c \in GetOfNothing THEN Panic(c)
          ELSE IF c \in DOMAIN htmlElementArms
            THEN Facade(htmlElementArms[c].outer \o BasicHTMLElement, o,
                        IF htmlElementArms[c].url THEN o ELSE Null)
            ELSE el

wrapElement(o) ==
  IF IsNullish(o) THEN Nil
  ELSE LET c == elementConstructor(o) IN
    IF c \in GetOfNothing THEN Panic(c) ELSE wrapHTMLElement(o)

wrapNode(o) ==
  IF IsNullish(o) THEN Nil
  ELSE LET c == elementConstructor(o) IN
    IF c \in GetOfNothing THEN Panic(c)
    ELSE IF c = "Text" THEN ByValue(Facade(<<"Text">> \o BasicNode, o, Null))
    ELSE wrapElement(o)

wrapEvent_nullCheckOnly(o) ==
  IF o = Null THEN Nil
  ELSE IF o = Undefined THEN Panic(GetFault("constructor", o))
  ELSE IF o.ctor \in DOMAIN eventArms
    THEN Facade(eventArms[o.ctor].outer \o BasicEvent, o, Null)
    ELSE Facade(BasicEvent, o, Null)

wrapEvent(o) ==
  IF IsNullish(o) THEN Nil
  ELSE LET ev == Facade(BasicEvent, o, Null)
           c == o.ctor
       IN IF c \in DOMAIN eventArms
            THEN Facade(eventArms[c].outer \o BasicEvent, o, Null)
            ELSE ev

(***************************************************************************)
(* The GopherJS generation of the package: wrapHTMLElement switches on     *)
(* o.Get("constructor") and panics in its default arm.                     *)
(***************************************************************************)
wrapHTMLElement_gopherjs(o) ==
  IF IsNullish(o) THEN Nil
  ELSE LET c == o.ctor
           el == Facade(BasicHTMLElement, o, Null)
       IN IF c \in DOMAIN htmlElementArms_gopherjs
            THEN Facade(htmlElementArms_gopherjs[c].outer \o BasicHTMLElement, o, Null)
            ELSE Panic("Unsupported HTML element type")

(***************************************************************************)
(* The first generation of the package: wrapHTMLElement switches on the    *)
(* string o.Get("constructor").Get("name"), over the same arms as the      *)
(* GopherJS generation; every arm wraps el in the type the arm names, and  *)
(* the default arm panics.                                                 *)
(***************************************************************************)
wrapHTMLElement_legacy(o) ==
  IF IsNullish(o) THEN Nil
  ELSE LET name == o.ctor IN
    IF name \in DOMAIN htmlElementArms_gopherjs
      THEN Facade(<<name>> \o BasicHTMLElement, o, Null)
      ELSE Panic("Unsupported HTML element type: " \o name)

(***************************************************************************)
(* The host objects the factories are applied to.                          *)
(***************************************************************************)
\* Constructors the host knows that no dispatch table lists.
OtherCtors == {"HTMLPictureElement", "SVGSVGElement", "InputEvent", "Object",
               "Document", "DocumentFragment", "Window", "Location"}

Ctors ==
  DOMAIN htmlElementArms \cup DOMAIN eventArms \cup {"Text", "HTMLDocument"} \cup OtherCtors

\* Inner nodes of Polymer wrappers.
PolymerCtors == {"HTMLDivElement", "HTMLVideoElement", "Text", "HTMLPictureElement"}

Objects ==
  { Object(id, c, "undefined", "") : id \in 1..MaxObj, c \in Ctors }
  \cup { Object(id, "Object", "object", c) : id \in 1..MaxObj, c \in PolymerCtors }
  \cup { Object(id, c, "null", "") : id \in 1..MaxObj, c \in {"Object", "HTMLDivElement"} }

Handles == Objects \cup {Null, Undefined}

\* The tag a handle dispatches on.
TagOf(o) == IF o.node = "object" THEN o.nodeCtor ELSE o.ctor

\* One call of a factory on the handle the caller holds.
Called(fn, o, r) ==
  /\ call = [fn |-> "none", arg |-> o]
  /\ call' = [fn |-> fn, arg |-> o]
  /\ ret' = r
  /\ UNCHANGED <<snapshotVars, listenerVars, timerVars, elementVars>>

WrapDocument(o) == Called("wrapDocument", o, wrapDocument(o))

WrapDocumentFragment(o) == Called("wrapDocumentFragment", o, wrapDocumentFragment(o))

WrapNode(o) == Called("wrapNode", o, wrapNode(o))

WrapElement(o) == Called("wrapElement", o, wrapElement(o))

WrapHTMLElement(o) == Called("wrapHTMLElement", o, wrapHTMLElement(o))

WrapEvent(o) == Called("wrapEvent", o, wrapEvent(o))

WrapHTMLElement_gopherjs(o) == Called("wrapHTMLElement_gopherjs", o, wrapHTMLElement_gopherjs(o))

WrapHTMLElement_legacy(o) == Called("wrapHTMLElement_legacy", o, wrapHTMLElement_legacy(o))

\* HTMLIFrameElement.ContentDocument: the host property is null for a frame
\* whose document is not accessible.
ContentDocument(doc) ==
  /\ doc = Null \/ (doc.kind = "object" /\ doc.ctor \in {"HTMLDocument", "Document"})
  /\ Called("ContentDocument", doc, wrapDocument(doc))

\* type window struct{ js.Value }: the composite literal &window{v} embeds v
\* as it is; no test of v precedes it.
window(v) == Facade(<<"window">>, v, Null)

\* What the host holds in a property, or returns from a call, that refers to
\* a browsing context: a Window, or null when there is none (no opener, a
\* detached frame, a document without a view, a blocked popup).
IsWindowValue(v) == v = Null \/ (v.kind = "object" /\ v.ctor = "Window" /\ v.node = "undefined")

Opener(v) == IsWindowValue(v) /\ Called("Opener", v, window(v))

Parent(v) == IsWindowValue(v) /\ Called("Parent", v, window(v))

Top(v) == IsWindowValue(v) /\ Called("Top", v, window(v))

Open(v) == IsWindowValue(v) /\ Called("Open", v, window(v))

DefaultView(v) == IsWindowValue(v) /\ Called("DefaultView", v, window(v))

HTMLIFrameElement_ContentWindow(v) ==
  IsWindowValue(v) /\ Called("HTMLIFrameElement.ContentWindow", v, window(v))

HTMLObjectElement_ContentWindow(v) ==
  IsWindowValue(v) /\ Called("HTMLObjectElement.ContentWindow", v, window(v))

\* document.CreateTextNode: wrapNode(d.Call("createTextNode", s)).(*Text) for
\* o, the text node the host created.
CreateTextNode(o) ==
  /\ o.kind = "object" /\ o.ctor = "Text" /\ o.node = "undefined"
  /\ Called("CreateTextNode", o, TypeAssert(wrapNode(o), "Text"))

\* window.Location: &Location{Value: o, URLUtils: &URLUtils{Value: o}} for
\* o, the host's location object.
Location(o) ==
  /\ o.kind = "object" /\ o.ctor = "Location" /\ o.node = "undefined"
  /\ Called("Location", o, Facade(<<"Location">>, o, o))

InitIdle ==
  /\ ret = Nil
  /\ coll = [kind |-> "collection", shape |-> "NodeList", items |-> <<>>]
  /\ snap = [fn |-> "none", src |-> Undefined, out |-> Nil]
  /\ listeners = {}
  /\ funcs = <<>>
  /\ delivered = [typ |-> "none", raw |-> Undefined, invoked |-> {}]
  /\ justAdded = 0
  /\ RestIdle

Init ==
  /\ \E o \in Handles : call = [fn |-> "none", arg |-> o]
  /\ InitIdle

Next ==
  \E o \in Handles :
    \/ WrapDocument(o)
    \/ WrapDocumentFragment(o)
    \/ WrapNode(o)
    \/ WrapElement(o)
    \/ WrapHTMLElement(o)
    \/ WrapEvent(o)
    \/ WrapHTMLElement_gopherjs(o)
    \/ WrapHTMLElement_legacy(o)
    \/ ContentDocument(o)
    \/ Opener(o)
    \/ Parent(o)
    \/ Top(o)
    \/ Open(o)
    \/ DefaultView(o)
    \/ HTMLIFrameElement_ContentWindow(o)
    \/ HTMLObjectElement_ContentWindow(o)
    \/ Location(o)
    \/ CreateTextNode(o)

Spec == Init /\ [][Next]_vars

(***************************************************************************)
(* Snapshot conversion of host collections.                                *)
(*                                                                         *)
(* A host collection is [kind |-> "collection", shape, items]: an Array,   *)
(* read by Length and Index, or a NodeList/HTMLCollection, read by its     *)
(* "length" property and item(i).  A Go slice is [kind |-> "slice", isNil, *)
(* elems, array], array naming the backing store: "go" for a slice built   *)
(* by append, "js" for a view of the host collection.                      *)
(***************************************************************************)
Collection(shape, items) == [kind |-> "collection", shape |-> shape, items |-> items]

NilSlice == [kind |-> "slice", isNil |-> TRUE, elems |-> <<>>, array |-> "go"]

\* append(out, x)
GoAppend(out, x) ==
  [kind |-> "slice", isNil |-> FALSE, elems |-> Append(out.elems, x), array |-> "go"]

Length(o) == Len(o.items)

\* o.Index(i), i counted from 0
Index(o, i) == o.items[i + 1]

\* o.Call("item", i): null past the end
Item(o, i) == IF i < Len(o.items) THEN o.items[i + 1] ELSE Null

RECURSIVE arrayToObjectsFrom(_, _, _)
arrayToObjectsFrom(o, i, out) ==
  IF i < Length(o) THEN arrayToObjectsFrom(o, i + 1, GoAppend(out, Index(o, i))) ELSE out

arrayToObjects(o) == arrayToObjectsFrom(o, 0, NilSlice)

RECURSIVE itemsFrom(_, _, _, _)
itemsFrom(o, i, length, out) ==
  IF i < length THEN itemsFrom(o, i + 1, length, GoAppend(out, Item(o, i))) ELSE out

nodeListToObjects_skipFirst(o) ==
  IF IsNullish(o) THEN Panic(GetFault("constructor", o))
  ELSE IF o.shape = "Array" THEN arrayToObjectsFrom(o, 1, NilSlice)
  ELSE itemsFrom(o, 1, Length(o), NilSlice)

nodeListToObjects_inclusiveBound(o) ==
  IF IsNullish(o) THEN Panic(GetFault("constructor", o))
  ELSE IF o.shape = "Array" THEN arrayToObjects(o)
  ELSE itemsFrom(o, 0, Length(o) + 1, NilSlice)

nodeListToObjects(o) ==
  IF IsNullish(o) THEN Panic(GetFault("constructor", o))
  ELSE IF o.shape = "Array" THEN arrayToObjects(o)
  ELSE LET length == Length(o) IN itemsFrom(o, 0, length, NilSlice)

\* for _, obj := range objs { out = append(out, wrap(obj)) }, with the three
\* factories; a panic of the factory ends the loop.
RECURSIVE wrapEach(_, _, _, _)
wrapEach(fn, objs, i, out) ==
  IF i > Len(objs) THEN out
  ELSE LET w == CASE fn = "wrapNode" -> wrapNode(objs[i])
                  [] fn = "wrapElement" -> wrapElement(objs[i])
                  [] OTHER -> wrapHTMLElement(objs[i])
       IN IF w.kind = "panic" THEN w ELSE wrapEach(fn, objs, i + 1, GoAppend(out, w))

Converted(fn, objs) ==
  IF objs.kind = "panic" THEN objs ELSE wrapEach(fn, objs.elems, 1, NilSlice)

nodeListToNodes_live(o) ==
  LET out == Converted("wrapNode", nodeListToObjects(o)) IN
  IF out.kind = "panic" THEN out
  ELSE [kind |-> "slice", isNil |-> out.isNil, elems |-> out.elems, array |-> "js"]

nodeListToNodes(o) == Converted("wrapNode", nodeListToObjects(o))

nodeListToElements(o) == Converted("wrapElement", nodeListToObjects(o))

nodeListToHTMLElements(o) == Converted("wrapHTMLElement", nodeListToObjects(o))

\* What a reader of the slice sees now: a view of the host collection shows
\* the collection's present members.
Entries(slice) ==
  IF slice.array = "js"
    THEN [i \in 1..Len(coll.items) |-> wrapNode(coll.items[i])]
    ELSE slice.elems

\* The members host collections hold: a text node, an element, an element
\* of a type no table lists.
Members ==
  { Object(1, "Text", "undefined", ""),
    Object(1, "HTMLDivElement", "undefined", ""),
    Object(1, "HTMLPictureElement", "undefined", "") }

Shapes == {"Array", "NodeList"}

\* The collection handle a conversion is handed: the host collection, or
\* null/undefined where the host has none (labels of a hidden input).
CollectionHandles == {coll, Null, Undefined}

Snapshot(fn, o, out) ==
  /\ snap' = [fn |-> fn, src |-> o, out |-> out]
  /\ UNCHANGED <<coll, dispatchVars, listenerVars, timerVars, elementVars>>

NodeListToNodes(o) == Snapshot("nodeListToNodes", o, nodeListToNodes(o))

NodeListToElements(o) == Snapshot("nodeListToElements", o, nodeListToElements(o))

NodeListToHTMLElements(o) == Snapshot("nodeListToHTMLElements", o, nodeListToHTMLElements(o))

\* The host inserts a member before position i (live collections follow the
\* document).
HostInsert(i, m) ==
  /\ Len(coll.items) < MaxLen
  /\ i \in 1..Len(coll.items) + 1
  /\ coll' = [coll EXCEPT !.items =
                SubSeq(coll.items, 1, i - 1) \o <<m>> \o SubSeq(coll.items, i, Len(coll.items))]
  /\ UNCHANGED <<snap, dispatchVars, listenerVars, timerVars, elementVars>>

HostRemove(i) ==
  /\ i \in 1..Len(coll.items)
  /\ coll' = [coll EXCEPT !.items =
                SubSeq(coll.items, 1, i - 1) \o SubSeq(coll.items, i + 1, Len(coll.items))]
  /\ UNCHANGED <<snap, dispatchVars, listenerVars, timerVars, elementVars>>

NoSnapshot == [fn |-> "none", src |-> Undefined, out |-> Nil]

SnapshotInit ==
  /\ call = [fn |-> "none", arg |-> Undefined]
  /\ ret = Nil
  /\ \E shape \in Shapes : coll = Collection(shape, <<>>)
  /\ snap = NoSnapshot
  /\ listeners = {}
  /\ funcs = <<>>
  /\ delivered = [typ |-> "none", raw |-> Undefined, invoked |-> {}]
  /\ justAdded = 0
  /\ RestIdle

SnapshotNext ==
  \/ \E o \in CollectionHandles :
       \/ NodeListToNodes(o)
       \/ NodeListToElements(o)
       \/ NodeListToHTMLElements(o)
  \/ \E i \in 1..MaxLen, m \in Members : HostInsert(i, m)
  \/ \E i \in 1..MaxLen : HostRemove(i)

SnapshotSpec == SnapshotInit /\ [][SnapshotNext]_vars

(***************************************************************************)
(* Event listeners.                                                        *)
(*                                                                         *)
(* js.FuncOf gives every adapter an id of its own; funcs[id] holds the     *)
(* caller's listener and whether the adapter was released, and, as         *)
(* history, the event type of its registration if it was removed directly  *)
(* after it was added.  The host keeps the target's listener list          *)
(* as entries (type, capture, callback) and invokes the callbacks of the   *)
(* event's type.                                                           *)
(***************************************************************************)
Listeners == {"h1", "h2"}

EventTypes == {"click", "keydown"}

\* The event objects the host dispatches; InputEvent is in no table.
EventObjects ==
  { Object(1, "MouseEvent", "undefined", ""),
    Object(1, "InputEvent", "undefined", "") }

wrapper_basicEventOnly(listener, args) ==
  << [listener |-> listener, event |-> Facade(BasicEvent, args[1], Null)] >>

\* The closure AddEventListener hands to js.FuncOf: the calls of the
\* caller's listener it makes before it returns.
wrapper(listener, args) ==
  << [listener |-> listener, event |-> wrapEvent(args[1])] >>

\* The host invokes callback w: a released js.Func runs no Go code.
Invoke(w, args) ==
  IF funcs[w].released THEN <<>> ELSE wrapper(funcs[w].listener, args)

\* The host's addEventListener: no second entry for the same triple.
addEventListener(typ, callback, useCapture) ==
  listeners \cup {[typ |-> typ, callback |-> callback, useCapture |-> useCapture]}

\* The host's removeEventListener: removes the entry with this triple.
removeEventListener(typ, callback, useCapture) ==
  listeners \ {[typ |-> typ, callback |-> callback, useCapture |-> useCapture]}

\* One adapter per listener: a second registration of a listener reuses the
\* adapter made for it.
AddEventListener_reusingAdapter(typ, useCapture, listener) ==
  LET old == { w \in DOMAIN funcs : funcs[w].listener = listener /\ ~funcs[w].released } IN
  /\ Len(funcs) < MaxFuncs
  /\ IF old # {}
       THEN LET w == CHOOSE x \in old : TRUE IN
            /\ funcs' = funcs
            /\ listeners' = addEventListener(typ, w, useCapture)
            /\ justAdded' = w
       ELSE LET w == Len(funcs) + 1 IN
            /\ funcs' = Append(funcs, [listener |-> listener, released |-> FALSE, cancelled |-> "none"])
            /\ listeners' = addEventListener(typ, w, useCapture)
            /\ justAdded' = w
  /\ UNCHANGED <<delivered, dispatchVars, snapshotVars, timerVars, elementVars>>

AddEventListener(typ, useCapture, listener) ==
  /\ Len(funcs) < MaxFuncs
  /\ LET w == Len(funcs) + 1 IN
       /\ funcs' = Append(funcs, [listener |-> listener, released |-> FALSE, cancelled |-> "none"])
       /\ listeners' = addEventListener(typ, w, useCapture)
       /\ justAdded' = w
  /\ UNCHANGED <<delivered, dispatchVars, snapshotVars, timerVars, elementVars>>

\* History: this removal names the adapter the directly preceding
\* AddEventListener returned, with that call's event type and capture flag.
DirectlyAfterAdd(typ, useCapture, w) ==
  /\ justAdded = w
  /\ [typ |-> typ, callback |-> w, useCapture |-> useCapture] \in listeners

RemoveEventListener_argsSwapped(typ, useCapture, w) ==
  /\ w \in DOMAIN funcs
  /\ funcs[w].listener \in Listeners
  /\ listeners' = listeners
  /\ funcs' = [funcs EXCEPT ![w].released = TRUE,
                            ![w].cancelled = IF DirectlyAfterAdd(typ, useCapture, w) THEN typ ELSE @]
  /\ justAdded' = 0
  /\ UNCHANGED <<delivered, dispatchVars, snapshotVars, timerVars, elementVars>>

RemoveEventListener_byHandler(typ, useCapture, w) ==
  /\ w \in DOMAIN funcs
  /\ funcs[w].listener \in Listeners
  /\ listeners' = { l \in listeners :
                     ~(l.typ = typ /\ l.useCapture = useCapture
                       /\ funcs[l.callback].listener = funcs[w].listener) }
  /\ funcs' = [funcs EXCEPT ![w].released = TRUE,
                            ![w].cancelled = IF DirectlyAfterAdd(typ, useCapture, w) THEN typ ELSE @]
  /\ justAdded' = 0
  /\ UNCHANGED <<delivered, dispatchVars, snapshotVars, timerVars, elementVars>>

RemoveEventListener(typ, useCapture, w) ==
  /\ w \in DOMAIN funcs
  /\ funcs[w].listener \in Listeners
  /\ listeners' = removeEventListener(typ, w, useCapture)
  /\ funcs' = [funcs EXCEPT ![w].released = TRUE,
                            ![w].cancelled = IF DirectlyAfterAdd(typ, useCapture, w) THEN typ ELSE @]
  /\ justAdded' = 0
  /\ UNCHANGED <<delivered, dispatchVars, snapshotVars, timerVars, elementVars>>

\* The host dispatches an event of type typ at the target: every callback
\* registered for typ is invoked with the event object.
HostDispatch(typ, e) ==
  /\ LET registered == { l.callback : l \in { x \in listeners : x.typ = typ } } IN
       delivered' = [typ |-> typ, raw |-> e,
                     invoked |-> { [callback |-> w, calls |-> Invoke(w, <<e>>)] : w \in registered }]
  /\ justAdded' = 0
  /\ UNCHANGED <<listeners, funcs, dispatchVars, snapshotVars, timerVars, elementVars>>

ListenerInit ==
  /\ call = [fn |-> "none", arg |-> Undefined]
  /\ ret = Nil
  /\ coll = Collection("NodeList", <<>>)
  /\ snap = NoSnapshot
  /\ listeners = {}
  /\ funcs = <<>>
  /\ delivered = [typ |-> "none", raw |-> Undefined, invoked |-> {}]
  /\ justAdded = 0
  /\ RestIdle

ListenerNext ==
  \/ \E typ \in EventTypes, useCapture \in BOOLEAN, listener \in Listeners :
       AddEventListener(typ, useCapture, listener)
  \/ \E typ \in EventTypes, useCapture \in BOOLEAN, w \in 1..MaxFuncs :
       RemoveEventListener(typ, useCapture, w)
  \/ \E typ \in EventTypes, e \in EventObjects : HostDispatch(typ, e)

ListenerSpec == ListenerInit /\ [][ListenerNext]_vars

(***************************************************************************)
(* Timers and animation frames.                                            *)
(*                                                                         *)
(* SetTimeout, SetInterval and RequestAnimationFrame wrap the caller's     *)
(* function in a js.Func of their own and hand it to the host, which       *)
(* returns the request id; the js.Func never reaches the caller.  The      *)
(* adapters share the js.Func table funcs with the listener adapters.      *)
(***************************************************************************)
Callbacks == {"f1"}

\* What one run of an adapter's closure does: the calls of the caller's
\* function, and whether the closure releases its own js.Func.
intervalWrapper_releasing(fn) == [calls |-> <<fn>>, releases |-> TRUE]

intervalWrapper(fn) == [calls |-> <<fn>>, releases |-> FALSE]

timeoutWrapper(fn) == [calls |-> <<fn>>, releases |-> TRUE]

frameWrapper(callback) == [calls |-> <<callback>>, releases |-> TRUE]

\* js.FuncOf followed by the host call that schedules the adapter.
Schedule(kind, fn) ==
  /\ Len(funcs) < MaxFuncs
  /\ funcs' = Append(funcs, [listener |-> fn, released |-> FALSE, cancelled |-> "none"])
  /\ timers' = Append(timers, [kind |-> kind, callback |-> Len(funcs) + 1,
                               pending |-> TRUE, fired |-> FALSE])
  /\ justAdded' = 0
  /\ UNCHANGED <<listeners, delivered, dispatchVars, snapshotVars, elementVars>>

SetInterval(fn) == Schedule("interval", fn)

SetTimeout(fn) == Schedule("timeout", fn)

RequestAnimationFrame(callback) == Schedule("frame", callback)

\* The host's clearTimeout/clearInterval (one id pool) and
\* cancelAnimationFrame: the request is dropped, the js.Func is not touched.
Unschedule(kinds, id) ==
  /\ id \in DOMAIN timers
  /\ timers' = [timers EXCEPT ![id].pending = IF timers[id].kind \in kinds THEN FALSE ELSE @]
  /\ justAdded' = 0
  /\ UNCHANGED <<listeners, funcs, delivered, dispatchVars, snapshotVars, elementVars>>

ClearInterval(id) == Unschedule({"interval", "timeout"}, id)

ClearTimeout(id) == Unschedule({"interval", "timeout"}, id)

CancelAnimationFrame(requestID) == Unschedule({"frame"}, requestID)

\* The closure behind the js.Func of request id.
Closure(id) ==
  LET fn == funcs[timers[id].callback].listener IN
    CASE timers[id].kind = "interval" -> intervalWrapper(fn)
      [] timers[id].kind = "timeout" -> timeoutWrapper(fn)
      [] timers[id].kind = "frame" -> frameWrapper(fn)

\* The host runs the callback of a pending request; timeouts and animation
\* frames are one-shot, intervals stay pending.
HostFire(id) ==
  /\ id \in DOMAIN timers
  /\ timers[id].pending
  /\ LET w == timers[id].callback IN
       funcs' = [funcs EXCEPT ![w].released =
                   IF @ THEN TRUE ELSE Closure(id).releases]
  /\ timers' = [timers EXCEPT ![id].pending = (timers[id].kind = "interval"),
                              ![id].fired = TRUE]
  /\ justAdded' = 0
  /\ UNCHANGED <<listeners, delivered, dispatchVars, snapshotVars, elementVars>>

TimerInit == ListenerInit

TimerNext ==
  \/ \E fn \in Callbacks :
       \/ SetInterval(fn)
       \/ SetTimeout(fn)
       \/ RequestAnimationFrame(fn)
  \/ \E id \in 1..MaxFuncs :
       \/ ClearInterval(id)
       \/ ClearTimeout(id)
       \/ CancelAnimationFrame(id)
       \/ HostFire(id)
  \/ \E listener \in Listeners : AddEventListener("click", FALSE, listener)
  \/ \E w \in 1..MaxFuncs : RemoveEventListener("click", FALSE, w)
  \/ \E e \in EventObjects : HostDispatch("click", e)

TimerSpec == TimerInit /\ [][TimerNext]_vars

\* The host's event loop runs every callback that stays due.
TimerLiveSpec == TimerSpec /\ WF_vars(\E id \in 1..MaxFuncs : HostFire(id))

(***************************************************************************)
(* Facade allocation.                                                      *)
(*                                                                         *)
(* Every arm of a factory builds its facade with a composite literal       *)
(* behind &, so each call that returns a facade allocates: heap[a] is the  *)
(* facade at address a together with the factory that built it, and the    *)
(* call returns a reference to it.                                         *)
(***************************************************************************)
WrapFns == {"wrapNode", "wrapElement", "wrapHTMLElement", "wrapEvent", "wrapDocument"}

WrapBy(fn, o) ==
  CASE fn = "wrapNode" -> wrapNode(o)
    [] fn = "wrapElement" -> wrapElement(o)
    [] fn = "wrapHTMLElement" -> wrapHTMLElement(o)
    [] fn = "wrapEvent" -> wrapEvent(o)
    [] fn = "wrapDocument" -> wrapDocument(o)

Ref(a) == [kind |-> "ref", addr |-> a]

\* Handles the factories are applied to more than once.
FacadeHandles ==
  { Object(1, "HTMLDivElement", "undefined", ""),
    Object(1, "Text", "undefined", ""),
    Object(1, "MouseEvent", "undefined", ""),
    Object(1, "HTMLDocument", "undefined", ""),
    Null }

\* One access of a factory to the host: a property of the handle ("o"), of
\* its inner node ("node") or of the global object.
HostAccess(target, verb, prop) == [prop |-> prop, target |-> target, verb |-> verb]

\* elementConstructor: o.Get("node"), then Get("constructor") on the inner
\* node when there is one and on o otherwise.
TagReads(o) ==
  { HostAccess("o", "Get", "node"),
    HostAccess(IF ~IsNullish(o) /\ GetNode(o) # Undefined THEN "node" ELSE "o", "Get", "constructor") }

\* The type descriptors a switch compares the tag with: js.Global().Get(arm)
\* for its arms in source order up to the matching one, at most all of them.
DescriptorReads(arms) == { HostAccess("global", "Get", arm) : arm \in arms }

\* A factory that also marks the handle it has wrapped.
Touched_marking(fn, o) ==
  IF IsNullish(o) THEN {}
  ELSE TagReads(o) \cup { HostAccess("o", "Set", "class") }

\* Every host access of one factory call.
Touched(fn, o) ==
  IF fn # "wrapDocument" /\ IsNullish(o) THEN {}
  ELSE CASE fn = "wrapEvent" ->
              { HostAccess("o", "Get", "constructor") } \cup DescriptorReads(DOMAIN eventArms)
         [] fn = "wrapDocument" -> TagReads(o) \cup DescriptorReads({"HTMLDocument"})
         [] fn = "wrapHTMLElement" -> TagReads(o) \cup DescriptorReads(DOMAIN htmlElementArms)
         [] fn = "wrapElement" -> TagReads(o) \cup DescriptorReads(DOMAIN htmlElementArms)
         [] fn = "wrapNode" ->
              TagReads(o) \cup DescriptorReads({"Text"})
                \cup (IF elementConstructor(o) = "Text" THEN {}
                      ELSE DescriptorReads(DOMAIN htmlElementArms))

\* The host after the accesses: a Get leaves it as it is, a Set on the handle
\* gives the property a value.
HostAfter(o, accesses) ==
  IF o.kind = "object" /\ o.id \in DOMAIN host
    THEN [host EXCEPT ![o.id] =
            [ctors |-> @.ctors,
             attrs |-> [class |-> IF HostAccess("o", "Set", "class") \in accesses
                                    THEN <<"a">> ELSE @.attrs.class,
                        sizes |-> IF HostAccess("o", "Set", "sizes") \in accesses
                                    THEN <<"a">> ELSE @.attrs.sizes]]]
    ELSE host

\* An identity cache: a facade built earlier over the handle is returned.
Allocate_cached(fn, o) ==
  /\ Len(heap) < MaxObj
  /\ LET f == WrapBy(fn, o)
         old == { a \in DOMAIN heap : heap[a].facade.Value = o } IN
       /\ call' = [fn |-> fn, arg |-> o]
       /\ IF f.kind # "facade"
            THEN ret' = f /\ heap' = heap
            ELSE IF old # {}
              THEN ret' = Ref(CHOOSE a \in old : TRUE) /\ heap' = heap
              ELSE /\ heap' = Append(heap, [fn |-> fn, facade |-> f])
                   /\ ret' = Ref(Len(heap) + 1)
  /\ host' = HostAfter(o, Touched(fn, o))
  /\ UNCHANGED <<snapshotVars, listenerVars, timerVars, op>>

\* One call of a factory: nil is returned as it is, a facade is allocated
\* and returned by reference.
Allocate(fn, o) ==
  /\ Len(heap) < MaxObj
  /\ LET f == WrapBy(fn, o) IN
       /\ call' = [fn |-> fn, arg |-> o]
       /\ IF f.kind # "facade"
            THEN ret' = f /\ heap' = heap
            ELSE /\ heap' = Append(heap, [fn |-> fn, facade |-> f])
                 /\ ret' = Ref(Len(heap) + 1)
  /\ host' = HostAfter(o, Touched(fn, o))
  /\ UNCHANGED <<snapshotVars, listenerVars, timerVars, op>>

NewNode(o) == Allocate("wrapNode", o)

NewElement(o) == Allocate("wrapElement", o)

NewHTMLElement(o) == Allocate("wrapHTMLElement", o)

NewEvent(o) == Allocate("wrapEvent", o)

NewDocument(o) == Allocate("wrapDocument", o)

\* The host holds the one object the handles refer to, with its attributes.
FacadeInit ==
  /\ call = [fn |-> "none", arg |-> Undefined]
  /\ ret = Nil
  /\ coll = Collection("NodeList", <<>>)
  /\ snap = NoSnapshot
  /\ listeners = {}
  /\ funcs = <<>>
  /\ delivered = [typ |-> "none", raw |-> Undefined, invoked |-> {}]
  /\ justAdded = 0
  /\ timers = <<>>
  /\ heap = <<>>
  /\ host = << [ctors |-> [class |-> "DOMTokenList", sizes |-> "DOMTokenList"],
                attrs |-> [class |-> <<>>, sizes |-> <<"a">>]] >>
  /\ op = <<>>

FacadeNext ==
  \E o \in FacadeHandles :
    \/ NewNode(o)
    \/ NewElement(o)
    \/ NewHTMLElement(o)
    \/ NewEvent(o)
    \/ NewDocument(o)

FacadeSpec == FacadeInit /\ [][FacadeNext]_vars

(***************************************************************************)
(* Token lists.                                                            *)
(*                                                                         *)
(* A Go string is a sequence of characters.  The host keeps, per element,  *)
(* the text of each token-list content attribute and the constructor of    *)
(* each DOMTokenList object; the string property of the owner ("className")*)
(* and the value property of a settable token list both reflect the        *)
(* attribute's text.  Every TokenList operation is computed as its         *)
(* outcome, the host property accesses it makes, and the host state after  *)
(* it.                                                                     *)
(***************************************************************************)
Chars == {"a", " "}

Strings == UNION { [1..n -> Chars] : n \in 0..MaxStr }

NoSpace(s) == \A i \in 1..Len(s) : s[i] # " "

\* The slices Set is handed: up to MaxLen tokens of at most one character.
TokenSlices ==
  UNION { [1..n -> { s \in Strings : NoSpace(s) /\ Len(s) <= 1 }] : n \in 0..MaxLen }

RECURSIVE Join_noSeparator(_, _)
Join_noSeparator(elems, sep) ==
  IF Len(elems) = 0 THEN <<>> ELSE elems[1] \o Join_noSeparator(Tail(elems), sep)

\* strings.Join
RECURSIVE Join(_, _)
Join(elems, sep) ==
  IF Len(elems) = 0 THEN <<>>
  ELSE IF Len(elems) = 1 THEN elems[1]
  ELSE elems[1] \o sep \o Join(Tail(elems), sep)

\* A host string, and js.Value.String: the text of a string, "<kind>" of
\* any other value.
JSString(s) == [kind |-> "string", text |-> s]

ValueString(v) == IF v.kind = "string" THEN v.text ELSE <<"<", v.kind, ">">>

\* The content attribute a string property of the owner reflects.
Reflects(prop) == IF prop = "className" THEN "class" ELSE prop

\* o.Get(prop) on an element.
Get(o, prop) ==
  CASE prop = "classList" ->
         [kind |-> "object", id |-> o.id, ctor |-> host[o.id].ctors.class, attr |-> "class"]
    [] prop = "sizes" ->
         [kind |-> "object", id |-> o.id, ctor |-> host[o.id].ctors.sizes, attr |-> "sizes"]
    [] prop = "className" -> JSString(host[o.id].attrs.class)
    [] OTHER -> Undefined

\* dtl.Get("value") on a token-list object.
GetValue(dtl) == JSString(host[dtl.id].attrs[dtl.attr])

\* The host after o.Set(prop, s) resp. dtl.Set("value", s).
Set(o, prop, s) == [host EXCEPT ![o.id].attrs[Reflects(prop)] = s]

SetValue(dtl, s) == [host EXCEPT ![dtl.id].attrs[dtl.attr] = s]

Access(target, verb, prop) == [prop |-> prop, target |-> target, verb |-> verb]

Done == [kind |-> "done"]

TokenList(dtl, o, sa) == [dtl |-> dtl, sa |-> sa, owner |-> o]

Class(e) == TokenList(Get(e.Value, "classList"), e.Value, "className")

Sizes(e) == TokenList(Get(e.Value, "sizes"), e.Value, "")

Outcome(out, touched, after) == [out |-> out, touched |-> touched, after |-> after]

String_noFallThrough(tl) ==
  IF tl.sa # ""
    THEN Outcome(JSString(ValueString(Get(tl.owner, tl.sa))),
                 << Access("o", "Get", tl.sa) >>, host)
    ELSE Outcome(JSString(ValueString(GetValue(tl.dtl))),
                 << Access("dtl", "Get", "constructor"), Access("dtl", "Get", "value") >>, host)

String_valueFirst(tl) ==
  IF tl.dtl.ctor = "DOMSettableTokenList"
    THEN Outcome(JSString(ValueString(GetValue(tl.dtl))),
                 << Access("dtl", "Get", "constructor"), Access("dtl", "Get", "value") >>, host)
    ELSE IF tl.sa # ""
      THEN Outcome(JSString(ValueString(Get(tl.owner, tl.sa))),
                   << Access("dtl", "Get", "constructor"), Access("o", "Get", tl.sa) >>, host)
      ELSE Outcome(JSString(<<>>), << Access("dtl", "Get", "constructor") >>, host)

String_atWrap(tl) == Outcome(JSString(<<>>), << >>, host)

\* TokenList.String
String(tl) ==
  IF tl.sa # ""
    THEN Outcome(JSString(ValueString(Get(tl.owner, tl.sa))),
                 << Access("o", "Get", tl.sa) >>, host)
    ELSE IF tl.dtl.ctor = "DOMSettableTokenList"
      THEN Outcome(JSString(ValueString(GetValue(tl.dtl))),
                   << Access("dtl", "Get", "constructor"), Access("dtl", "Get", "value") >>, host)
      ELSE Outcome(JSString(<<>>), << Access("dtl", "Get", "constructor") >>, host)

SetString_trimmed(tl, s) ==
  Outcome(Done, << Access("o", "Set", tl.sa) >>,
          Set(tl.owner, tl.sa, IF Len(s) > 1 THEN SubSeq(s, 1, Len(s) - 1) ELSE s))

\* TokenList.SetString
SetString(tl, s) ==
  IF tl.sa # ""
    THEN Outcome(Done, << Access("o", "Set", tl.sa) >>, Set(tl.owner, tl.sa, s))
    ELSE IF tl.dtl.ctor = "DOMSettableTokenList"
      THEN Outcome(Done,
                   << Access("dtl", "Get", "constructor"), Access("dtl", "Set", "value") >>,
                   SetValue(tl.dtl, s))
      ELSE Outcome(Panic("no way to SetString on this TokenList"),
                   << Access("dtl", "Get", "constructor") >>, host)

\* TokenList.Set
Set_tokens(tl, tokens) == SetString(tl, Join(tokens, <<" ">>))

\* The element of the package documentation's example, and the two
\* facades e1 and e2 obtained for it by two GetElementByID calls.
MyElement == Object(1, "HTMLLinkElement", "undefined", "")

TokenListCtors == {"DOMTokenList", "DOMSettableTokenList"}

Lists == {"class", "sizes"}

ListOf(e, list) == IF list = "class" THEN Class(e) ELSE Sizes(e)

\* follows and writer are history: the directly preceding operation, if it
\* was a write on the same list that returned, and the facade it went through.
NoOp == [prop |-> "", fn |-> "none", arg |-> <<>>, out |-> Done, touched |-> <<>>,
         tokens |-> <<>>, list |-> "", via |-> 0, follows |-> "none", writer |-> 0]

Operation(fn, a, list, s, tokens, r) ==
  /\ a \in DOMAIN heap
  /\ LET wrote == op.fn \in {"SetString", "Set"} /\ op.list = list /\ op.out = Done IN
       op' = [prop |-> ListOf(heap[a].facade, list).sa, fn |-> fn, arg |-> s,
              out |-> r.out, touched |-> r.touched, tokens |-> tokens, list |-> list, via |-> a,
              follows |-> IF wrote THEN op.fn ELSE "none",
              writer |-> IF wrote THEN op.via ELSE 0]
  /\ host' = r.after
  /\ UNCHANGED <<heap, dispatchVars, snapshotVars, listenerVars, timerVars>>

TokenString(a, list) ==
  Operation("String", a, list, <<>>, <<>>, String(ListOf(heap[a].facade, list)))

TokenSetString(a, list, s) ==
  Operation("SetString", a, list, s, <<>>, SetString(ListOf(heap[a].facade, list), s))

TokenSet(a, list, tokens) ==
  Operation("Set", a, list, Join(tokens, <<" ">>), tokens,
            Set_tokens(ListOf(heap[a].facade, list), tokens))

TokenInit ==
  /\ call = [fn |-> "none", arg |-> Undefined]
  /\ ret = Nil
  /\ coll = Collection("NodeList", <<>>)
  /\ snap = NoSnapshot
  /\ listeners = {}
  /\ funcs = <<>>
  /\ delivered = [typ |-> "none", raw |-> Undefined, invoked |-> {}]
  /\ justAdded = 0
  /\ timers = <<>>
  /\ heap = << [fn |-> "wrapElement", facade |-> wrapElement(MyElement)],
               [fn |-> "wrapElement", facade |-> wrapElement(MyElement)] >>
  /\ \E c1 \in TokenListCtors, c2 \in TokenListCtors :
       host = << [ctors |-> [class |-> c1, sizes |-> c2],
                  attrs |-> [class |-> <<>>, sizes |-> <<"a">>]] >>
  /\ op = NoOp

TokenNext ==
  \E a \in DOMAIN heap, list \in Lists :
    \/ TokenString(a, list)
    \/ \E s \in Strings : TokenSetString(a, list, s)
    \/ \E tokens \in TokenSlices : TokenSet(a, list, tokens)

TokenSpec == TokenInit /\ [][TokenNext]_vars

(***************************************************************************)
(* Cross-reference resolvers.                                              *)
(*                                                                         *)
(* A resolver reads a relationship property of its element, wraps what it  *)
(* finds and asserts the facade's dynamic type.  The resolvers are         *)
(* computed on the value of the relationship property: a handle for a      *)
(* single target, a host collection for many.                              *)
(***************************************************************************)
\* x.(*T) without the check.
\* if x == nil { return nil }; return x.(*T)
NilOrAssert(x, T) == IF x = Nil THEN Nil ELSE TypeAssert(x, T)

\* make([]*T, len(xs))
MakeSlice == [kind |-> "slice", isNil |-> FALSE, elems |-> <<>>, array |-> "go"]

\* for i, x := range xs { out[i] = x.(*T) }
RECURSIVE assertEach(_, _, _, _)
assertEach(xs, T, i, out) ==
  IF i > Len(xs) THEN out
  ELSE LET x == TypeAssert(xs[i], T) IN
    IF x.kind = "panic" THEN x ELSE assertEach(xs, T, i + 1, GoAppend(out, x))

AssertAll(xs, T) == IF xs.kind = "panic" THEN xs ELSE assertEach(xs.elems, T, 1, MakeSlice)

\* for i := 0; i < length; i++ { els = append(els, wrapHTMLElement(c.Call("item", i)).(*T)) }
RECURSIVE itemsOfType(_, _, _, _, _)
itemsOfType(c, T, i, length, els) ==
  IF i < length
    THEN LET x == IF c.shape = "Array" THEN Panic("item is not a function")
                  ELSE TypeAssert(wrapHTMLElement(Item(c, i)), T) IN
           IF x.kind = "panic" THEN x ELSE itemsOfType(c, T, i + 1, length, GoAppend(els, x))
    ELSE els

ItemsOfType(c, T) ==
  IF IsNullish(c) THEN Panic(GetFault("length", c)) ELSE itemsOfType(c, T, 0, Length(c), NilSlice)

\* The type each resolver asserts: the T of its x.(*T).
Asserted ==
  ("getForm" :> "HTMLFormElement")
  @@ ("List" :> "HTMLDataListElement")
  @@ ("HTMLSelectElement_Item" :> "HTMLOptionElement")
  @@ ("NamedItem" :> "HTMLOptionElement")
  @@ ("htmlDocument_Head" :> "HTMLHeadElement")
  @@ ("getLabels" :> "HTMLLabelElement")
  @@ ("getOptions" :> "HTMLOptionElement")
  @@ ("Areas" :> "HTMLAreaElement")
  @@ ("Cells" :> "HTMLTableCellElement")
  @@ ("Rows" :> "HTMLTableRowElement")
  @@ ("Forms" :> "HTMLFormElement")
  @@ ("Images" :> "HTMLImageElement")
  @@ ("Plugins" :> "HTMLEmbedElement")
  @@ ("Scripts" :> "HTMLScriptElement")

\* The constructors of the objects relationships lead to: the asserted
\* types, HTMLTableDataCellElement (what a td is on hosts that have the
\* type) and HTMLDivElement.
TargetCtors ==
  { Asserted[fn] : fn \in DOMAIN Asserted } \cup {"HTMLTableDataCellElement", "HTMLDivElement"}

Targets == { Object(1, c, "undefined", "") : c \in TargetCtors }

SingleRelationships == Targets \cup {Null, Undefined}

CollectionRelationships ==
  { Collection(shape, items) :
      shape \in Shapes, items \in UNION { [1..n -> Targets] : n \in 0..MaxLen } }
  \cup {Null, Undefined}

Relationships == SingleRelationships \cup CollectionRelationships

\* What the relationship property holds: at most one target, or a
\* collection of targets; null or undefined where the host has none.
HasSingleTarget(rel) == rel.kind \in {"null", "undefined", "object"}

HasTargetCollection(rel) == rel.kind \in {"null", "undefined", "collection"}

getForm(rel) ==
  HasSingleTarget(rel) /\ Called("getForm", rel, NilOrAssert(wrapHTMLElement(rel), Asserted["getForm"]))

List(rel) ==
  HasSingleTarget(rel) /\ Called("List", rel, NilOrAssert(wrapHTMLElement(rel), Asserted["List"]))

HTMLSelectElement_Item(rel) ==
  HasSingleTarget(rel) /\ Called("HTMLSelectElement_Item", rel, NilOrAssert(wrapHTMLElement(rel), Asserted["HTMLSelectElement_Item"]))

NamedItem(rel) ==
  HasSingleTarget(rel) /\ Called("NamedItem", rel, NilOrAssert(wrapHTMLElement(rel), Asserted["NamedItem"]))

htmlDocument_Head(rel) ==
  HasSingleTarget(rel) /\ Called("htmlDocument_Head", rel, NilOrAssert(wrapElement(rel), Asserted["htmlDocument_Head"]))

getLabels(rel) ==
  HasTargetCollection(rel) /\ Called("getLabels", rel, AssertAll(nodeListToElements(rel), Asserted["getLabels"]))

getOptions(rel) ==
  HasTargetCollection(rel) /\ Called("getOptions", rel, AssertAll(nodeListToElements(rel), Asserted["getOptions"]))

Areas(rel) ==
  HasTargetCollection(rel) /\ Called("Areas", rel, AssertAll(nodeListToElements(rel), Asserted["Areas"]))

Cells(rel) ==
  HasTargetCollection(rel) /\ Called("Cells", rel, AssertAll(nodeListToElements(rel), Asserted["Cells"]))

Rows(rel) ==
  HasTargetCollection(rel) /\ Called("Rows", rel, AssertAll(nodeListToElements(rel), Asserted["Rows"]))

Forms(rel) ==
  HasTargetCollection(rel) /\ Called("Forms", rel, ItemsOfType(rel, Asserted["Forms"]))

Images(rel) ==
  HasTargetCollection(rel) /\ Called("Images", rel, ItemsOfType(rel, Asserted["Images"]))

Plugins(rel) ==
  HasTargetCollection(rel) /\ Called("Plugins", rel, ItemsOfType(rel, Asserted["Plugins"]))

Scripts(rel) ==
  HasTargetCollection(rel) /\ Called("Scripts", rel, ItemsOfType(rel, Asserted["Scripts"]))

ResolverInit ==
  /\ \E rel \in Relationships : call = [fn |-> "none", arg |-> rel]
  /\ InitIdle

ResolverNext ==
  \E rel \in {call.arg} :
    \/ getForm(rel)
    \/ List(rel)
    \/ HTMLSelectElement_Item(rel)
    \/ NamedItem(rel)
    \/ htmlDocument_Head(rel)
    \/ getLabels(rel)
    \/ getOptions(rel)
    \/ Areas(rel)
    \/ Cells(rel)
    \/ Rows(rel)
    \/ Forms(rel)
    \/ Images(rel)
    \/ Plugins(rel)
    \/ Scripts(rel)

ResolverSpec == ResolverInit /\ [][ResolverNext]_vars

(***************************************************************************)
(* Handing facades to the host.                                            *)
(*                                                                         *)
(* A method that takes a Node or an Event passes it on in a host call.     *)
(* call.arg holds the caller's arguments and the answer the host will      *)
(* give; ret holds the host call as the host received it, with what the    *)
(* method returned.                                                        *)
(***************************************************************************)
\* A caller's own implementation of Event: struct{ dom.Event } around an
\* event of this package. The methods of the interface are promoted to it,
\* Underlying among them; js.Value's own methods are not.
CallerEvent(o) == Facade(<<"callerEvent", "Event">> \o BasicEvent, o, Null)

\* BasicNode.Underlying and BasicEvent.Underlying: the embedded js.Value.
Underlying(f) == f.Value

\* The conversion js.Value.Call applies to each argument: a js.Value is
\* passed as it is, nil as null, and a Go value whose method set has
\* JSValue (a struct chain that embeds js.Value) as the value JSValue
\* returns; any other Go value is fatal.
ValueOf(x) ==
  CASE x.kind \in {"object", "null", "undefined"} -> x
    [] x.kind = "nil" -> Null
    [] x.kind = "facade" /\ ~HasLayer(x, "Event") -> x.Value
    [] OTHER -> Panic("ValueOf: invalid value")

\* n.Call(method, args...), and the method's return value made of the
\* host's answer.
HostCall(method, args, out) ==
  IF \E i \in DOMAIN args : ValueOf(args[i]).kind = "panic"
    THEN Panic("ValueOf: invalid value")
    ELSE [kind |-> "hostcall", out |-> out,
          args |-> [i \in DOMAIN args |-> ValueOf(args[i])], method |-> method]

NoResult == [kind |-> "none"]

IsNodeFacade(f) == f.kind = "facade" /\ HasLayer(f, "BasicNode")

IsEventFacade(f) == f.kind = "facade" /\ HasLayer(f, "BasicEvent")

DispatchEvent(x) ==
  /\ IsEventFacade(x.facade)
  /\ Called("DispatchEvent", x, HostCall("dispatchEvent", <<x.facade>>, x.result))

window_DispatchEvent(x) ==
  /\ IsEventFacade(x.facade)
  /\ Called("window.DispatchEvent", x, HostCall("dispatchEvent", <<x.facade>>, x.result))

AppendChild(x) ==
  /\ IsNodeFacade(x.facade)
  /\ Called("AppendChild", x, HostCall("appendChild", <<Underlying(x.facade)>>, NoResult))

RemoveChild(x) ==
  /\ IsNodeFacade(x.facade)
  /\ Called("RemoveChild", x, HostCall("removeChild", <<Underlying(x.facade)>>, NoResult))

\* var o interface{}; if before != nil { o = before.Underlying() }
InsertBefore(x) ==
  /\ IsNodeFacade(x.facade)
  /\ Called("InsertBefore", x,
            HostCall("insertBefore",
                     <<Underlying(x.facade), IF x.before # Nil THEN Underlying(x.before) ELSE Nil>>,
                     NoResult))

Contains(x) ==
  /\ IsNodeFacade(x.facade)
  /\ Called("Contains", x, HostCall("contains", <<Underlying(x.facade)>>, x.result))

\* The host's adoptNode returns the node it was given.
AdoptNode(x) ==
  /\ IsNodeFacade(x.facade)
  /\ Called("AdoptNode", x,
            HostCall("adoptNode", <<Underlying(x.facade)>>, wrapNode(Underlying(x.facade))))

HandedNodes ==
  { Object(id, c, "undefined", "") :
      id \in 1..MaxObj, c \in {"HTMLDivElement", "HTMLAnchorElement", "Text", "SVGSVGElement"} }

HandedFacades ==
  { wrapNode(o) : o \in HandedNodes }
    \cup { wrapEvent(e) : e \in EventObjects }
    \cup { CallerEvent(e) : e \in EventObjects }

HandoffInit ==
  /\ \E f \in HandedFacades, before \in {Nil, wrapNode(Object(1, "HTMLSpanElement", "undefined", ""))},
        result \in BOOLEAN :
       call = [fn |-> "none", arg |-> [facade |-> f, result |-> result, before |-> before]]
  /\ InitIdle

HandoffNext ==
  \E x \in {call.arg} :
    \/ DispatchEvent(x)
    \/ window_DispatchEvent(x)
    \/ AppendChild(x)
    \/ RemoveChild(x)
    \/ InsertBefore(x)
    \/ Contains(x)
    \/ AdoptNode(x)

HandoffSpec == HandoffInit /\ [][HandoffNext]_vars

(***************************************************************************)
(* Host failures as values.                                                *)
(*                                                                         *)
(* call.arg holds the receiver, the argument n and what the host call will *)
(* do; ret holds what the method did: it returned an error value (nil      *)
(* included) or it panicked.                                               *)
(***************************************************************************)
Completes == [kind |-> "completes"]

Panics(e) == [kind |-> "panics", value |-> e]

\* Values a panic can carry: errors (js.Error for a thrown JavaScript
\* exception, *js.ValueError, a runtime.Error) and values that are no error.
PanicValues ==
  { [kind |-> "js.Error", text |-> "InvalidStateError"],
    [kind |-> "js.Error", text |-> "TypeError"],
    [kind |-> "*js.ValueError", text |-> "Value.Call"],
    [kind |-> "runtime.Error", text |-> "nil map"],
    [kind |-> "string", text |-> "ValueOf: invalid value"],
    [kind |-> "int", text |-> "1"] }

\* e.(error) succeeds and the value is not nil.
IsError(e) == e.kind \in {"js.Error", "*js.ValueError", "runtime.Error"}

Return(err) == [kind |-> "return", err |-> err]

\* Every panic is recovered and dropped.
callRecover_swallowing(o, fn, args, outcome) ==
  IF outcome.kind = "completes" THEN Return(Nil)
  ELSE IF IsError(outcome.value) THEN Return(outcome.value)
  ELSE Return(Nil)

\* callRecover: o.Call(fn, args...) under a deferred recover; outcome is what
\* the host does with the call.
callRecover(o, fn, args, outcome) ==
  IF outcome.kind = "completes" THEN Return(Nil)
  ELSE LET e == outcome.value IN
    IF IsError(e) THEN Return(e) ELSE Panic(e)

HostOutcomes == {Completes} \cup { Panics(e) : e \in PanicValues }

StepDown(x) == Called("StepDown", x, callRecover(x.receiver, "stepDown", x.args, x.outcome))

StepUp(x) == Called("StepUp", x, callRecover(x.receiver, "stepUp", x.args, x.outcome))

\* The host is asked through the handle of an input element.
RecoverInit ==
  /\ \E id \in 1..MaxObj, n \in 0..MaxLen, outcome \in HostOutcomes :
       call = [fn |-> "none",
               arg |-> [args |-> <<n>>, outcome |-> outcome,
                        receiver |-> Underlying(wrapHTMLElement(Object(id, "HTMLInputElement", "undefined", "")))]]
  /\ InitIdle

RecoverNext ==
  \E x \in {call.arg} :
    \/ StepDown(x)
    \/ StepUp(x)

RecoverSpec == RecoverInit /\ [][RecoverNext]_vars

(***************************************************************************)
(* Properties of the facade factories.                                     *)
(***************************************************************************)
NullGuarded == {"wrapNode", "wrapElement", "wrapHTMLElement", "wrapEvent"}

\* C1: wrapNode, wrapElement, wrapHTMLElement and wrapEvent return nil for a
\* null or undefined handle, and never a facade whose handle is null/undefined.
C1_NullishYieldsNil ==
  call.fn \in NullGuarded =>
    /\ IsNullish(call.arg) => ret = Nil
    /\ ret.kind = "facade" => ~IsNullish(ret.Value)

C1_Witness == call.fn = "wrapEvent" /\ call.arg = Undefined /\ ret = Nil

\* C2: no dispatch entry point reads a type descriptor from null or
\* undefined; a null/undefined handle, or a handle whose "node" property is
\* null, ends in "no object" and never in a Get on nothing.
C2_NoTagLookupOnNothing ==
  call.fn \in NullGuarded \cup {"wrapDocument", "wrapDocumentFragment", "ContentDocument"} =>
    /\ ~(ret.kind = "panic" /\ ret.why \in GetOfNothing)
    /\ (IsNullish(call.arg) \/ call.arg.node = "null") => ret = Nil

\* The Go type that implements the host type named T.
DocumentedType(T) == IF T = "HTMLElement" THEN "BasicHTMLElement" ELSE T

\* C3: a handle whose tag T is in the dispatch vocabulary is wrapped in the
\* concrete type named T, over the handle itself, and the facade satisfies
\* every ancestor capability set of T.
C3_ConcreteTypeMatchesTag ==
  LET o == call.arg
      T == elementConstructor(o)
  IN
  /\ (call.fn \in {"wrapNode", "wrapElement", "wrapHTMLElement"} /\ T \in DOMAIN htmlElementArms) =>
       /\ ret.kind = "facade"
       /\ ret.Value = o
       /\ ConcreteType(ret) = DocumentedType(T)
       /\ Implements(ret, "HTMLElement") /\ Implements(ret, "Element") /\ Implements(ret, "Node")
       /\ T \in {"HTMLAudioElement", "HTMLVideoElement"} => HasLayer(ret, "HTMLMediaElement")
  /\ (call.fn = "wrapNode" /\ T = "Text") =>
       ret.kind = "facade" /\ ret.Value = o /\ ConcreteType(ret) = "Text" /\ Implements(ret, "Node")
  /\ (call.fn = "wrapEvent" /\ o.kind = "object" /\ o.ctor \in DOMAIN eventArms) =>
       /\ ret.kind = "facade"
       /\ ret.Value = o
       /\ ConcreteType(ret) = o.ctor
       /\ Implements(ret, "Event")
       /\ o.ctor = "MouseEvent" => HasLayer(ret, "UIEvent")

C3_Witness ==
  /\ call.fn = "wrapElement"
  /\ elementConstructor(call.arg) = "HTMLVideoElement"
  /\ ret.kind = "facade"
  /\ ret.layers = <<"HTMLVideoElement", "HTMLMediaElement", "BasicHTMLElement", "BasicElement", "BasicNode">>

BaseInterface(fn) ==
  CASE fn = "wrapNode" -> "Node"
    [] fn = "wrapElement" -> "Element"
    [] fn = "wrapEvent" -> "Event"
    [] OTHER -> "HTMLElement"

\* C4: dispatch is total: every handle that is neither null nor undefined,
\* whatever its tag, is wrapped in a facade with at least the base capability
\* set, and no factory ends in a fatal condition.
C4_DispatchTotal ==
  (call.fn \in NullGuarded \cup {"wrapHTMLElement_gopherjs"} /\ call.arg.kind = "object") =>
    /\ ret.kind # "panic"
    /\ Implements(ret, BaseInterface(call.fn))

ExpectedType(fn, T) ==
  CASE fn = "nodeListToNodes" /\ T = "Text" -> "Text"
    [] T \in DOMAIN htmlElementArms -> DocumentedType(T)
    [] OTHER -> "BasicHTMLElement"

\* C6: a host collection of length N converts to a snapshot of length N
\* whose i-th entry wraps the i-th member in the concrete type of the
\* member's tag, in host order, for the Array and the NodeList shape.
C6_SnapshotMatchesCollection ==
  snap.src.kind = "collection" =>
    /\ snap.out.kind = "slice"
    /\ Len(snap.out.elems) = Len(snap.src.items)
    /\ \A i \in 1..Len(snap.src.items) :
         /\ snap.out.elems[i].kind = "facade"
         /\ snap.out.elems[i].Value = snap.src.items[i]
         /\ ConcreteType(snap.out.elems[i]) = ExpectedType(snap.fn, TagOf(snap.src.items[i]))

C6_Witness ==
  /\ snap.fn = "nodeListToNodes"
  /\ snap.src.kind = "collection"
  /\ snap.src.shape = "NodeList"
  /\ snap.src.items = <<Object(1, "Text", "undefined", ""), Object(1, "HTMLDivElement", "undefined", "")>>
  /\ snap.out.kind = "slice"
  /\ Len(snap.out.elems) = 2
  /\ ConcreteType(snap.out.elems[1]) = "Text"
  /\ ConcreteType(snap.out.elems[2]) = "HTMLDivElement"

IsEmptyCollection(o) == o.kind = "collection" /\ Len(o.items) = 0

C8_AbsentYieldsEmpty ==
  (snap.fn # "none" /\ IsNullish(snap.src)) =>
    snap.out.kind = "slice" /\ Len(snap.out.elems) = 0

(***************************************************************************)
(* Properties of the event listeners.                                      *)
(***************************************************************************)
\* C9: an adapter removed by RemoveEventListener(typ, useCapture, w) directly
\* after the AddEventListener(typ, useCapture, h) that returned w is no
\* longer registered: whatever event the host dispatches later, the host
\* does not invoke w and h is invoked zero times through it.
C9_RemovedAdapterNeverFires ==
  \A w \in DOMAIN funcs :
    funcs[w].cancelled # "none" =>
      /\ \A l \in listeners : l.callback # w
      /\ \A d \in delivered.invoked : d.callback # w

C9_Witness ==
  /\ Len(funcs) = 1
  /\ funcs[1].cancelled = "click"
  /\ delivered.typ = "click"
  /\ delivered.invoked = {}

\* C10: each time the host invokes a live (not released) adapter with a raw
\* event handle, the adapter calls the caller's listener exactly once before
\* it returns, with the facade wrapEvent gives for that handle: concrete type
\* of the handle's event tag, over the raw handle.
C10_AdapterCallsListenerOnce ==
  \A d \in delivered.invoked :
    ~funcs[d.callback].released =>
      /\ Len(d.calls) = 1
      /\ d.calls[1].listener = funcs[d.callback].listener
      /\ d.calls[1].event.kind = "facade"
      /\ d.calls[1].event.Value = delivered.raw
      /\ Implements(d.calls[1].event, "Event")
      /\ ConcreteType(d.calls[1].event) =
           (IF delivered.raw.ctor \in DOMAIN eventArms THEN delivered.raw.ctor ELSE "BasicEvent")

C10_Witness ==
  /\ delivered.raw.ctor = "MouseEvent"
  /\ \E d \in delivered.invoked :
       /\ ~funcs[d.callback].released
       /\ funcs[d.callback].listener = "h2"
       /\ d.calls = << [listener |-> "h2",
                        event |-> Facade(<<"MouseEvent", "UIEvent", "BasicEvent">>, delivered.raw, Null)] >>

\* C11: RemoveEventListener removes only the registration of the adapter it
\* is handed: a registration leaves the host's list only in a step that
\* releases its own adapter, such a step takes away at most one registration
\* and changes no other adapter, also not one of the same listener, event
\* type and capture flag; and the host's next event of the type invokes the
\* listener of every registration that is left and not released.
C11_OnlyNamedAdapterRemoved ==
  [][ /\ (delivered' = delivered /\ Len(funcs') = Len(funcs)) =>
          /\ Cardinality(listeners \ listeners') <= 1
          /\ \A l \in listeners \ listeners' :
               /\ funcs'[l.callback].released
               /\ \A w \in DOMAIN funcs : w # l.callback => funcs'[w] = funcs[w]
      /\ delivered' # delivered =>
          \A l \in listeners :
            (l.typ = delivered'.typ /\ ~funcs[l.callback].released) =>
              \E d \in delivered'.invoked :
                /\ d.callback = l.callback
                /\ Len(d.calls) = 1
                /\ d.calls[1].listener = funcs[l.callback].listener ]_vars

\* Two adapters of one listener for one event type; the second was removed
\* right after it was added, and a later event of the type reached the
\* listener through the first.
C11_Witness ==
  \E w1 \in DOMAIN funcs, w2 \in DOMAIN funcs :
    /\ w1 # w2
    /\ funcs[w1].listener = funcs[w2].listener
    /\ funcs[w2].cancelled = delivered.typ
    /\ ~funcs[w1].released
    /\ \E l \in listeners : l.callback = w1 /\ l.typ = delivered.typ
    /\ \E d \in delivered.invoked : d.callback = w1 /\ Len(d.calls) = 1

BecomesReleased(w) == ~funcs[w].released /\ funcs'[w].released

\* C12 (as stated): no adapter is released when it fires; an adapter is
\* released only by the caller's explicit removal request.
C12_ReleasedOnlyByRemoval ==
  [][ \A w \in DOMAIN funcs :
        BecomesReleased(w) =>
          \E typ \in EventTypes, useCapture \in BOOLEAN :
            RemoveEventListener(typ, useCapture, w) ]_vars

\* C12 (amended): the adapters of AddEventListener and SetInterval are not
\* released by firing; the adapters of SetTimeout and RequestAnimationFrame
\* release themselves in the run of their callback; apart from that an
\* adapter is released only by RemoveEventListener.
C12_OneShotAdaptersReleaseThemselves ==
  [][ /\ \A w \in DOMAIN funcs :
          BecomesReleased(w) =>
            \/ \E typ \in EventTypes, useCapture \in BOOLEAN :
                 RemoveEventListener(typ, useCapture, w)
            \/ \E id \in DOMAIN timers :
                 /\ timers[id].callback = w
                 /\ timers[id].kind \in {"timeout", "frame"}
                 /\ HostFire(id)
      /\ \A id \in DOMAIN timers :
          (HostFire(id) /\ timers[id].kind \in {"timeout", "frame"}) =>
            funcs'[timers[id].callback].released ]_vars

\* A timeout has fired and its adapter is released, and an interval has
\* fired and its adapter is not.
C12_Witness ==
  \E i \in DOMAIN timers, j \in DOMAIN timers :
    /\ timers[i].kind = "timeout" /\ timers[i].fired
    /\ funcs[timers[i].callback].released
    /\ timers[j].kind = "interval" /\ timers[j].fired
    /\ ~funcs[timers[j].callback].released

ReadsBack(b, list) == op'.fn = "String" /\ op'.via = b /\ op'.list = list

\* C14: after SetString(s) on the class list through one facade, a following
\* String() on the class list through another facade of the same element
\* returns s, which is also what the writing facade reads.
C14_WriteSeenThroughOtherFacade ==
  [][ \A b \in DOMAIN heap :
        ( /\ op.fn = "SetString" /\ op.list = "class" /\ op.out = Done
          /\ op.via # b
          /\ heap[op.via].facade.Value = heap[b].facade.Value
          /\ ReadsBack(b, "class") ) =>
            /\ op'.out = JSString(op.arg)
            /\ op'.out = String(Class(heap[op.via].facade)).out ]_vars

\* e2 has read back the class "a" that e1 wrote in the step before.
C14_Witness ==
  /\ op.fn = "String" /\ op.list = "class"
  /\ op.follows = "SetString"
  /\ op.writer = 1 /\ op.via = 2
  /\ op.out = JSString(<<"a">>)

C16_ResolutionOrder ==
  op.fn # "none" =>
    LET verb == IF op.fn = "String" THEN "Get" ELSE "Set"
        settable == host[1].ctors[op.list] = "DOMSettableTokenList" IN
      /\ op.prop # "" => op.touched = << Access("o", verb, op.prop) >>
      /\ (\E i \in DOMAIN op.touched : op.touched[i] = Access("dtl", verb, "value"))
           <=> (op.prop = "" /\ settable)

\* A write went to className although the class list is settable.
C16_Witness ==
  /\ op.fn = "SetString" /\ op.prop = "className"
  /\ host[1].ctors.class = "DOMSettableTokenList"
  /\ host[1].attrs.class = <<"a">>

\* C17: without a companion attribute and with a plain DOMTokenList,
\* String() returns "" whatever the list holds, and SetString and Set panic
\* and leave the host as it was.
C17_UnsupportedShape ==
  [][ (op'.prop = "" /\ host[1].ctors[op'.list] = "DOMTokenList") =>
        IF op'.fn = "String"
          THEN op'.out = JSString(<<>>)
          ELSE op'.out.kind = "panic" /\ host' = host ]_vars

\* The sizes list holds "a" and String() has returned "".
C17_Witness ==
  /\ op.fn = "String" /\ op.list = "sizes"
  /\ host[1].ctors.sizes = "DOMTokenList"
  /\ host[1].attrs.sizes = <<"a">>
  /\ op.out = JSString(<<>>)

\* The tokens with one space between neighbours.
SingleSpaced(tokens) ==
  LET F[i \in 0..Len(tokens)] ==
        IF i = 0 THEN <<>>
        ELSE IF i = 1 THEN tokens[1]
        ELSE F[i - 1] \o <<" ">> \o tokens[i]
  IN F[Len(tokens)]

\* C18: on a token list with a companion attribute, Set(tokens) leaves the
\* host as SetString of the single-spaced tokens would, a following String()
\* returns the tokens joined by one space each, and "" for no tokens.
C18_SetIsSetStringOfJoin ==
  [][ /\ (op'.fn = "Set" /\ op'.prop # "") =>
          host' = SetString(ListOf(heap[op'.via].facade, op'.list),
                            SingleSpaced(op'.tokens)).after
      /\ \A b \in DOMAIN heap, list \in Lists :
          ( /\ op.fn = "Set" /\ op.list = list
            /\ op.prop # ""
            /\ ReadsBack(b, list) ) =>
              /\ op'.out = JSString(SingleSpaced(op.tokens))
              /\ op.tokens = <<>> => op'.out = JSString(<<>>) ]_vars

\* Set of the tokens "a", "a" was read back as "a a".
C18_Witness ==
  /\ op.fn = "String" /\ op.prop = "className"
  /\ op.follows = "Set"
  /\ op.out = JSString(<<"a", " ", "a">>)

\* C19: getForm, getLabels and getOptions return "none" (nil, or an empty
\* sequence) and do not panic when the relationship is null or undefined.
C19_AbsentYieldsNone ==
  (call.fn \in {"getForm", "getLabels", "getOptions"} /\ IsNullish(call.arg)) =>
    \/ ret = Nil
    \/ ret.kind = "slice" /\ Len(ret.elems) = 0

\* The targets of a present relationship.
TargetsOf(rel) ==
  IF rel.kind = "collection" THEN { rel.items[i] : i \in DOMAIN rel.items } ELSE {rel}

\* The facades a resolver returned.
Returned(r) ==
  IF r.kind = "facade" THEN {r}
  ELSE IF r.kind = "slice" THEN { r.elems[i] : i \in DOMAIN r.elems }
  ELSE {}

\* C20: a resolver whose relationship is present and has a target with a
\* type tag other than the asserted type panics, and no resolver returns a
\* facade of the asserted type over a handle with another type tag.
C20_MismatchIsFatal ==
  (call.fn \in DOMAIN Asserted /\ ~IsNullish(call.arg)) =>
    /\ (\E t \in TargetsOf(call.arg) : TagOf(t) # Asserted[call.fn]) => ret.kind = "panic"
    /\ \A f \in Returned(ret) :
         ConcreteType(f) = Asserted[call.fn] => TagOf(f.Value) = Asserted[call.fn]

\* getLabels met a div behind a label and panicked.
C20_Witness ==
  /\ call.fn = "getLabels"
  /\ call.arg.kind = "collection"
  /\ Len(call.arg.items) = 2
  /\ TagOf(call.arg.items[1]) = "HTMLLabelElement"
  /\ TagOf(call.arg.items[2]) = "HTMLDivElement"
  /\ ret.kind = "panic"

(***************************************************************************)
(* Properties of the accessors that return a related object.               *)
(***************************************************************************)
WindowAccessors ==
  {"Opener", "Parent", "Top", "Open", "DefaultView", "HTMLIFrameElement.ContentWindow",
   "HTMLObjectElement.ContentWindow"}

\* C21: an accessor that returns a facade for a related host object returns
\* "no object" when the host value is null or undefined, and never a facade
\* whose handle is null/undefined; the Window-returning accessors included.
C21_RelatedNullYieldsNoObject ==
  call.fn \in WindowAccessors \cup {"ContentDocument"} =>
    /\ IsNullish(call.arg) => ret = Nil
    /\ ret.kind = "facade" => ~IsNullish(ret.Value)

(***************************************************************************)
(* Properties of the composed layers.                                      *)
(***************************************************************************)
TwoLayerTypes == {"HTMLAnchorElement", "HTMLAreaElement", "Location"}

\* C22: in every facade that wrapHTMLElement builds, Underlying() is the
\* handle that was passed in, and in the concrete types that hold a URLUtils
\* layer beside the element (or value) layer, that layer is set and wraps
\* the same handle.
C22_LayersShareHandle ==
  (call.fn \in {"wrapHTMLElement", "wrapElement", "wrapNode", "wrapHTMLElement_gopherjs", "Location"}
     /\ ret.kind = "facade") =>
    /\ ret.Value = call.arg
    /\ (call.fn # "wrapHTMLElement_gopherjs" /\ ConcreteType(ret) \in TwoLayerTypes) =>
         ret.URLUtils # Null /\ ret.URLUtils = ret.Value

C22_Witness ==
  /\ call.fn = "wrapHTMLElement"
  /\ ret.kind = "facade"
  /\ ConcreteType(ret) = "HTMLAreaElement"
  /\ ret.Value = call.arg
  /\ ret.URLUtils = call.arg

(***************************************************************************)
(* Properties of the type tag.                                             *)
(***************************************************************************)
TagDispatched ==
  {"wrapNode", "wrapElement", "wrapHTMLElement", "wrapHTMLElement_gopherjs",
   "wrapHTMLElement_legacy"}

DispatchOf(fn, o) ==
  CASE fn = "wrapHTMLElement_gopherjs" -> wrapHTMLElement_gopherjs(o)
    [] fn = "wrapHTMLElement_legacy" -> wrapHTMLElement_legacy(o)
    [] OTHER -> WrapBy(fn, o)

\* The dynamic host type a handle is dispatched on: the handle's own, or for
\* a Polymer wrapper (v2 only) that of the inner node.
HostType(fn, o) ==
  IF fn \in {"wrapHTMLElement_gopherjs", "wrapHTMLElement_legacy"} THEN o.ctor ELSE TagOf(o)

\* The handles whose tag can be read at all: in v2 an object whose "node"
\* property holds null has none.
HasTag(fn, o) == fn \in WrapFns => elementConstructor(o) \notin GetOfNothing

Vocabulary(fn) ==
  CASE fn \in {"wrapHTMLElement_gopherjs", "wrapHTMLElement_legacy"} -> DOMAIN htmlElementArms_gopherjs
    [] fn = "wrapNode" -> DOMAIN htmlElementArms \cup {"Text"}
    [] OTHER -> DOMAIN htmlElementArms

\* C23: the facade type depends on the handle's dynamic host type only: any
\* other handle of the same host type is dispatched to the same concrete
\* type, any handle of a different host type in the vocabulary to a different
\* one; for a Polymer wrapper the tag is the inner node's while the facade
\* wraps the outer handle.
C23_TagDeterminesType ==
  (call.fn \in TagDispatched /\ ret.kind = "facade") =>
    /\ \A b \in { h \in Objects : HasTag(call.fn, h) } :
         LET rb == DispatchOf(call.fn, b) IN
         /\ HostType(call.fn, b) = HostType(call.fn, call.arg) =>
              rb.kind = "facade" /\ ConcreteType(rb) = ConcreteType(ret)
         /\ ( /\ HostType(call.fn, b) # HostType(call.fn, call.arg)
              /\ HostType(call.fn, b) \in Vocabulary(call.fn)
              /\ HostType(call.fn, call.arg) \in Vocabulary(call.fn) ) =>
              rb.kind = "facade" /\ ConcreteType(rb) # ConcreteType(ret)
    /\ (call.fn \in WrapFns /\ call.arg.node = "object") =>
         /\ elementConstructor(call.arg) = call.arg.nodeCtor
         /\ call.arg.nodeCtor \in Vocabulary(call.fn) =>
              ConcreteType(ret) = DocumentedType(call.arg.nodeCtor)
         /\ ret.Value = call.arg

C23_Witness ==
  /\ call.fn = "wrapHTMLElement"
  /\ call.arg.node = "object"
  /\ call.arg.nodeCtor = "HTMLVideoElement"
  /\ ret.kind = "facade"
  /\ ConcreteType(ret) = "HTMLVideoElement"
  /\ ret.Value = call.arg

C25_ReleasedNeverRegistered ==
  \A l \in listeners : ~funcs[l.callback].released

\* The calls of listener h the host's last dispatch led to.
CallsOf(h, d) == { i \in d.invoked : \E k \in 1..Len(i.calls) : i.calls[k].listener = h }

\* The live registrations of listener h for event type typ.
LiveFor(h, typ) ==
  { l \in listeners : l.typ = typ /\ funcs[l.callback].listener = h /\ ~funcs[l.callback].released }

\* C26: every AddEventListener call makes a new adapter and one more
\* registration, also for a handler, type and capture flag registered before;
\* an event invokes the handler once per live registration for its type; a
\* removal takes away one registration and leaves the others.
C26_EachAddIsAFreshRegistration ==
  [][ /\ justAdded' # 0 =>
           /\ Len(funcs') = Len(funcs) + 1
           /\ justAdded' = Len(funcs')
           /\ listeners \subseteq listeners'
           /\ Cardinality(listeners') = Cardinality(listeners) + 1
           /\ \A l \in listeners' \ listeners : l.callback = justAdded'
      /\ delivered' # delivered =>
           \A h \in Listeners :
             Cardinality(CallsOf(h, delivered')) = Cardinality(LiveFor(h, delivered'.typ))
      /\ listeners' # listeners /\ justAdded' = 0 =>
           /\ listeners' \subseteq listeners
           /\ Cardinality(listeners') = Cardinality(listeners) - 1 ]_vars

\* One handler was registered twice for one type and capture flag, one of
\* the two adapters was removed, and the next event invoked the handler once.
C26_Witness ==
  /\ Len(funcs) = 2
  /\ funcs[1].listener = funcs[2].listener
  /\ funcs[1].released /\ ~funcs[2].released
  /\ listeners = {[typ |-> "click", callback |-> 2, useCapture |-> FALSE]}
  /\ funcs[1].cancelled = "none"
  /\ delivered.typ = "click"
  /\ Cardinality(CallsOf(funcs[2].listener, delivered)) = 1

(***************************************************************************)
(* Properties of the release of timer adapters.                            *)
(***************************************************************************)
\* C27: the adapter of a request that is no longer pending, because its
\* timeout or animation frame has fired or because the request was cancelled
\* with ClearTimeout, CancelAnimationFrame or ClearInterval, is eventually
\* released.
C27_SettledAdapterEventuallyReleased ==
  \A id \in 1..MaxFuncs :
    (id \in DOMAIN timers /\ ~timers[id].pending)
      ~> (id \in DOMAIN timers /\ funcs[timers[id].callback].released)

(***************************************************************************)
(* Properties of the creation of text nodes.                               *)
(***************************************************************************)
\* C28: CreateTextNode returns a *Text facade over the text node the host
\* created and ends in no fatal condition: what wrapNode returns for a Text
\* handle has the dynamic type *Text that CreateTextNode asserts.
C28_CreateTextNodeReturnsText ==
  call.fn = "CreateTextNode" =>
    /\ ret.kind = "facade"
    /\ ConcreteType(ret) = "Text"
    /\ ret.pointer
    /\ ret.Value = call.arg

(***************************************************************************)
(* Properties of the host calls that take a facade.                        *)
(***************************************************************************)
\* C29: a method that hands a facade to the host passes the facade's
\* underlying handle: the host receives event.Underlying() in dispatchEvent,
\* node.Underlying() in appendChild, removeChild, insertBefore, contains and
\* adoptNode, and DispatchEvent and Contains return the host's boolean.
C29_HostReceivesUnderlying ==
  call.fn \in {"DispatchEvent", "window.DispatchEvent", "AppendChild", "RemoveChild", "InsertBefore",
               "Contains", "AdoptNode"} =>
    /\ ret.kind = "hostcall"
    /\ ret.args[1] = Underlying(call.arg.facade)
    /\ call.fn \in {"DispatchEvent", "window.DispatchEvent", "Contains"} => ret.out = call.arg.result

(***************************************************************************)
(* Properties of the recovered host calls.                                 *)
(***************************************************************************)
\* C30: StepUp and StepDown return nil when the host call completes, return
\* the panic value as the error when the host call panics with an error,
\* and panic again with the same value when the panic value is no error.
C30_HostFailureBecomesError ==
  call.fn \in {"StepUp", "StepDown"} =>
    LET outcome == call.arg.outcome IN
    /\ outcome.kind = "completes" => ret = Return(Nil)
    /\ (outcome.kind = "panics" /\ IsError(outcome.value)) =>
         ret.kind = "return" /\ ret.err = outcome.value /\ ret.err # Nil
    /\ (outcome.kind = "panics" /\ ~IsError(outcome.value)) =>
         ret.kind = "panic" /\ ret.why = outcome.value

C30_Witness ==
  /\ call.fn = "StepUp"
  /\ call.arg.outcome = Panics([kind |-> "js.Error", text |-> "InvalidStateError"])
  /\ ret = Return([kind |-> "js.Error", text |-> "InvalidStateError"])
====
